---- MODULE Spec2Model ----
(***************************************************************************)
(* Timber marketplace single-page application: the volume calculation of   *)
(* the demand / stock forms, the records the forms write to localStorage,  *)
(* and the admin dashboard's status aggregation and company ranking.       *)
(*                                                                         *)
(* Conventions.  A JavaScript string is a sequence of one-character        *)
(* strings (<<"2", ".", "5">> is "2.5").  Lengths and diameters are kept   *)
(* in tenths (Scale), volumes in thousandths of a cubic metre (what        *)
(* toFixed(3) leaves), ranking values in hundredths (toFixed(2)) and       *)
(* percentages in tenths of a percent (toFixed(1)).  NaN is the record     *)
(* [nan |-> TRUE, v |-> 0].  The doubles Infinity and -Infinity are the     *)
(* integers Infinity and -Infinity, beyond every finite value met here; a  *)
(* volume that is NaN is the integer NotANumber, and the null JSON writes  *)
(* for a number that is not finite is the integer Null.                    *)
(***************************************************************************)
EXTENDS Integers, Sequences, FiniteSets, TLC

\* ------------------------------------------------------------------ numbers

\* one decimal place is kept of every parsed number
Scale == 10

\* Math.PI as the rational PiNum / PiDen
PiNum == 355
PiDen == 113

Digits == {"0", "1", "2", "3", "4", "5", "6", "7", "8", "9"}

DigitVal(c) ==
    CASE c = "0" -> 0 [] c = "1" -> 1 [] c = "2" -> 2 [] c = "3" -> 3
      [] c = "4" -> 4 [] c = "5" -> 5 [] c = "6" -> 6 [] c = "7" -> 7
      [] c = "8" -> 8 [] c = "9" -> 9

NaN == [nan |-> TRUE, v |-> 0]
Num(n) == [nan |-> FALSE, v |-> n]

\* the double Infinity, in every unit; -Infinity is its negative
Infinity == 1000000000

\* the cubicMeters that is NaN
NotANumber == 2000000000

\* the null of JSON
Null == 2000000001

IsInfinite(n) == n = Infinity \/ n = 0 - Infinity

Abs(n) == IF n < 0 THEN 0 - n ELSE n

\* Number.prototype.toFixed on n / d for n >= 0 and d > 0: the nearest integer,
\* the larger one of the two when n / d lies exactly half way
RoundDiv(n, d) == (2 * n + d) \div (2 * d)

\* the longest prefix of s made of decimal digits
RECURSIVE DigitPrefix(_)
DigitPrefix(s) ==
    IF s = <<>> \/ Head(s) \notin Digits THEN <<>>
    ELSE <<Head(s)>> \o DigitPrefix(Tail(s))

RECURSIVE DigitsValue(_, _)
DigitsValue(s, acc) ==
    IF s = <<>> THEN acc ELSE DigitsValue(Tail(s), 10 * acc + DigitVal(Head(s)))

Drop(s, n) == SubSeq(s, n + 1, Len(s))

InfinityLiteral == <<"I", "n", "f", "i", "n", "i", "t", "y">>

\* parseFloat: optional sign, then the word Infinity, or digits, optional "."
\* and digits, read from the start of the string; whatever follows is ignored;
\* NaN without any digit.  The value is in tenths: the first decimal digit is
\* kept.  Exponents are not read.
parseFloat(s) ==
    LET neg      == s # <<>> /\ Head(s) = "-"
        signed   == s # <<>> /\ Head(s) \in {"-", "+"}
        body     == IF signed THEN Tail(s) ELSE s
        infinite == Len(body) >= Len(InfinityLiteral)
                    /\ SubSeq(body, 1, Len(InfinityLiteral)) = InfinityLiteral
        intPart  == DigitPrefix(body)
        rest     == Drop(body, Len(intPart))
        fracPart == IF rest # <<>> /\ Head(rest) = "."
                    THEN DigitPrefix(Tail(rest)) ELSE <<>>
        mag      == DigitsValue(intPart, 0) * Scale
                    + (IF fracPart = <<>> THEN 0 ELSE DigitVal(Head(fracPart)))
    IN  IF infinite THEN Num(IF neg THEN 0 - Infinity ELSE Infinity)
        ELSE IF intPart = <<>> /\ fracPart = <<>> THEN NaN
        ELSE Num(IF neg THEN 0 - mag ELSE mag)

\* parseInt: optional sign and digits read from the start of the string; it
\* stops at the first other character ("2.5" is 2); NaN without any digit.
\* The value is in units.
parseInt(s) ==
    LET neg     == s # <<>> /\ Head(s) = "-"
        signed  == s # <<>> /\ Head(s) \in {"-", "+"}
        body    == IF signed THEN Tail(s) ELSE s
        intPart == DigitPrefix(body)
        mag     == DigitsValue(intPart, 0)
    IN  IF intPart = <<>> THEN NaN
        ELSE Num(IF neg THEN 0 - mag ELSE mag)

\* a + b of two numbers: NaN when either is, and for Infinity + -Infinity
Plus(a, b) ==
    IF a.nan \/ b.nan THEN NaN
    ELSE IF IsInfinite(a.v) /\ IsInfinite(b.v) THEN (IF a.v = b.v THEN a ELSE NaN)
    ELSE IF IsInfinite(a.v) THEN a
    ELSE IF IsInfinite(b.v) THEN b
    ELSE Num(a.v + b.v)

\* faulty variant of VolumeMilli: the average diameter is squared, not the radius
VolumeMilliOfDiameter(dsum, len, qty) ==
    RoundDiv(PiNum * dsum * dsum * Abs(len) * Abs(qty), PiDen * 40000)

\* parseFloat((Math.PI * Math.pow(avgDiameter / 2, 2) * len * qty).toFixed(3))
\* in thousandths, for avgDiameter = dsum / 2 / 100 with dsum and len in
\* tenths: pi * (dsum / 4000)^2 * (len / 10) * qty * 1000, that is
\* pi * dsum^2 * len * qty / 160000.  The quotient is taken factor by factor,
\* carrying the remainder, so that no intermediate product leaves 32 bits;
\* toFixed rounds the magnitude to the nearest thousandth and keeps the sign.
VolumeMilli(dsum, len, qty) ==
    LET p  == PiNum \div 5
        d  == PiDen * 32000
        l  == Abs(len)
        q  == Abs(qty)
        s1 == p * dsum * dsum
        q1 == s1 \div d
        r1 == s1 % d
        s2 == r1 * l
        q2 == s2 \div d
        r2 == s2 % d
        s3 == r2 * q
        q3 == s3 \div d
        r3 == s3 % d
        mag == (q1 * l + q2) * q + q3 + (IF 2 * r3 >= d THEN 1 ELSE 0)
    IN  IF (len < 0) # (qty < 0) THEN 0 - mag ELSE mag

\* Math.PI * Math.pow(avgDiameter / 2, 2) * len * qty as toFixed(3) and
\* parseFloat leave it: Infinity times 0 is NaN, Infinity times anything else
\* is Infinity with the sign of the product, and "NaN" and "Infinity" are
\* what toFixed prints and parseFloat reads back
Volume(dsum, len, qty) ==
    IF IsInfinite(dsum) \/ IsInfinite(len)
    THEN IF dsum = 0 \/ len = 0 \/ qty = 0 THEN NaN
         ELSE Num(IF (len < 0) # (qty < 0) THEN 0 - Infinity ELSE Infinity)
    ELSE Num(VolumeMilli(dsum, len, qty))

\* a number as a field of React state: NaN is NotANumber
AsField(n) == IF n.nan THEN NotANumber ELSE n.v

\* a number after JSON.stringify and JSON.parse: null unless it is finite
JsonNumber(n) == IF n = NotANumber \/ IsInfinite(n) THEN Null ELSE n

\* ------------------------------------------------------------------ volume

\* calculateCubicMeters of the new-demand and the new-stock form: the value it
\* stores in formData.cubicMeters
calculateCubicMeters(fd) ==
    IF fd.diameterFrom # <<>> /\ fd.diameterTo # <<>> /\ fd.length # <<>> /\ fd.quantity # <<>>
    THEN LET avgDiameter == Plus(parseFloat(fd.diameterFrom), parseFloat(fd.diameterTo))
             len         == parseFloat(fd.length)
             qty         == parseInt(fd.quantity)
         IN  IF ~avgDiameter.nan /\ ~len.nan /\ ~qty.nan /\ avgDiameter.v > 0
             THEN AsField(Volume(avgDiameter.v, len.v, qty.v))
             ELSE 0
    ELSE 0

\* the cubicMeters handleCompanyActionFormSubmit stores, for a form that passed
\* its empty-field check: (Math.PI * ... * len * qty) || 0, then toFixed(3)
adminCubicMeters(fd) ==
    LET avgDiameter == Plus(parseFloat(fd.diameterFrom), parseFloat(fd.diameterTo))
        len         == parseFloat(fd.length)
        qty         == parseInt(fd.quantity)
    IN  IF avgDiameter.nan \/ len.nan \/ qty.nan THEN 0
        ELSE IF Volume(avgDiameter.v, len.v, qty.v).nan THEN 0
        ELSE Volume(avgDiameter.v, len.v, qty.v).v

\* ------------------------------------------------------------------ records

\* DemandStatus and StockStatus, in declaration order
DemandStatuses == <<"Received", "Processing", "Completed", "Cancelled">>
StockStatuses == <<"Available", "Reserved", "Sold">>

\* submittedByCompanyId / uploadedByCompanyId of a record no company owns
NoCompany == 0

\* the fields the volume is computed from.  diameterType, which the submit
\* button and the admin submit also require, is taken as chosen; notes and the
\* other texts of a record are left out.
FieldNames == {"diameterFrom", "diameterTo", "length", "quantity"}

\* initialFormData (and initialCompanyActionFormData, which has no cubicMeters:
\* the field stays 0 there)
initialFormData ==
    [diameterFrom |-> <<>>, diameterTo |-> <<>>, length |-> <<>>, quantity |-> <<>>,
     cubicMeters |-> 0]

\* a DemandItem or StockItem as it is stored
Item(fd, cubic, status, companyId) ==
    [diameterFrom |-> fd.diameterFrom, diameterTo |-> fd.diameterTo,
     length |-> fd.length, quantity |-> fd.quantity,
     cubicMeters |-> JsonNumber(cubic), status |-> status, companyId |-> companyId]

\* ------------------------------------------------------------------ state

VARIABLES
    demands,        \* localStorage[CUSTOMER_DEMANDS_STORAGE_KEY], newest first
    stock,          \* localStorage[MANUFACTURER_STOCK_STORAGE_KEY], newest first
    companies,      \* localStorage[MOCK_COMPANIES_STORAGE_KEY]
    userRole,       \* App's userRole ("none" is null)
    page,           \* the page component that is mounted
    location,       \* the path of the HashRouter's location
    formData,       \* formData of the form pages, companyActionFormData of the admin page
    recalcPending,  \* the calculateCubicMeters effect is scheduled and has not run
    submitting,     \* isLoading.submit: the 1500 ms timer of handleSubmit is running
    mockCompanies,  \* AdminUsersPage state.mockCompanies
    showCompanyActionForm,      \* "demand", "stock" or "none" (null)
    selectedCompanyForAction,   \* a company record, or NoSelection (null)
    isLoading,      \* AdminDashboardPage: the feature keys whose isLoading flag is set
    dashboard,      \* AdminDashboardPage state: the summaries, totals and top lists
    requestedTopN,  \* per role, the topN of the latest call of loadTopCompaniesByVolume
    aiFeature,      \* the AI feature whose request is in flight, or "none"
    responseText,   \* response.text of the generateContent call
    parsedResult,   \* what parseJsonFromGeminiResponse returned for it, or Pending
    newItem,        \* newDemand or newStockItem held by the timer of handleSubmit (<<>>: none)
    reported,       \* the record of the latest alert of a successful submission (<<>>: none)
    ai,             \* GeminiAssistantWidget: the GoogleGenAI client was created (API_KEY is set)
    inputValue,     \* GeminiAssistantWidget: inputValue
    chatHistory,    \* GeminiAssistantWidget: chatHistory
    chatLoading,    \* GeminiAssistantWidget: isLoading
    chatError,      \* GeminiAssistantWidget: error is set
    inFlight,       \* the texts of the generateContent calls of the widget that have not settled
    aiLoading,      \* the AI loading flags of the page that are set, as [flag, key]
    aiCalls,        \* the AI calls of the page's handlers that have not settled
    aiResult,       \* the result states of the page's AI features ("null": not set)
    aiSelected      \* selectedDemandIdForAi, selectedDemandIdForStockSuggestion ("null": none)

vars == <<demands, stock, companies, userRole, page, location, formData, recalcPending, submitting,
          mockCompanies, showCompanyActionForm, selectedCompanyForAction, isLoading,
          dashboard, requestedTopN, aiFeature, responseText, parsedResult,
          newItem, reported, ai, inputValue, chatHistory, chatLoading, chatError, inFlight,
          aiLoading, aiCalls, aiResult, aiSelected>>

storeVars == <<demands, stock, companies>>
formVars == <<formData, recalcPending, submitting>>
adminVars == <<mockCompanies, showCompanyActionForm, selectedCompanyForAction>>
dashVars == <<isLoading, dashboard, requestedTopN>>
aiVars == <<aiFeature, responseText, parsedResult>>
submitVars == <<newItem, reported>>
chatVars == <<ai, inputValue, chatHistory, chatLoading, chatError, inFlight>>
requestVars == <<aiLoading, aiCalls, aiResult, aiSelected>>

\* ------------------------------------------------------------------ strings

UpperCase == <<"A", "B", "C", "G", "M">>
LowerCase == <<"a", "b", "c", "g", "m">>

\* String.prototype.toLowerCase, over the letters company names are made of
toLowerCase(s) ==
    [i \in 1..Len(s) |->
        IF \E k \in 1..Len(UpperCase) : UpperCase[k] = s[i]
        THEN LowerCase[CHOOSE k \in 1..Len(UpperCase) : UpperCase[k] = s[i]]
        ELSE s[i]]

\* String(n) of an integer 0 <= n < 1000
NumberToString(n) ==
    LET ds == <<"0", "1", "2", "3", "4", "5", "6", "7", "8", "9">>
    IN  IF n < 10 THEN <<ds[n + 1]>>
        ELSE IF n < 100 THEN <<ds[(n \div 10) + 1], ds[(n % 10) + 1]>>
        ELSE <<ds[(n \div 100) + 1], ds[((n \div 10) % 10) + 1], ds[(n % 10) + 1]>>

\* ------------------------------------------------------------------ status aggregator

\* faulty variant of CountStatus: the loop starts at the second record
CountStatusFromSecond(items, status) ==
    Cardinality({i \in 2..Len(items) : items[i].status = status})

\* what the forEach of loadOrderStatusSummary leaves in counts[status]: the
\* records whose status is that key of counts
CountStatus(items, status) ==
    Cardinality({i \in 1..Len(items) : items[i].status = status})

\* faulty variant of Percentage: the share is not multiplied by 100
PercentageOfOne(count, total) == RoundDiv(count * 10, total)

\* faulty variant of Percentage: the share is cut after the first decimal
PercentageCut(count, total) == (count * 1000) \div total

\* parseFloat(((count / total) * 100).toFixed(1)), in tenths of a percent
Percentage(count, total) == RoundDiv(count * 1000, total)

\* faulty variant of StatusSummary: an empty list is not told apart, and 0 / 0
\* is NaN
StatusSummaryDividing(items, statuses) ==
    [k \in 1..Len(statuses) |->
        [status |-> statuses[k],
         count |-> CountStatus(items, statuses[k]),
         percentage |-> IF Len(items) = 0 THEN NotANumber
                        ELSE Percentage(CountStatus(items, statuses[k]), Len(items))]]

\* faulty variant of StatusSummary: the rows come from the statuses met in the list
StatusSummaryOfMet(items, statuses) ==
    SelectSeq([k \in 1..Len(statuses) |->
                  [status |-> statuses[k],
                   count |-> CountStatus(items, statuses[k]),
                   percentage |-> IF Len(items) = 0 THEN 0
                                  ELSE Percentage(CountStatus(items, statuses[k]), Len(items))]],
              LAMBDA row : row.count > 0)

\* the rows of loadOrderStatusSummary / loadStockStatusSummary for the stored
\* list items and the enumeration statuses (colorClass left out)
StatusSummary(items, statuses) ==
    LET total == Len(items)
    IN  IF total = 0
        THEN [k \in 1..Len(statuses) |->
                [status |-> statuses[k], count |-> 0, percentage |-> 0]]
        ELSE [k \in 1..Len(statuses) |->
                [status |-> statuses[k],
                 count |-> CountStatus(items, statuses[k]),
                 percentage |-> Percentage(CountStatus(items, statuses[k]), total)]]

\* ------------------------------------------------------------------ company ranker

\* the default of loadTopCompaniesByVolume's topN
DefaultTopN == 5

\* the longest label shown in full
LabelLimit == 15

\* the characters kept of a longer name
LabelKept == 12

\* faulty variant of CompanyVolume: every owned record is added to every company
RECURSIVE CompanyVolumeAnyOwner(_, _)
CompanyVolumeAnyOwner(items, id) ==
    IF items = <<>> THEN 0
    ELSE (IF Head(items).companyId # NoCompany /\ Head(items).cubicMeters \notin {0, Null}
          THEN Head(items).cubicMeters ELSE 0)
         + CompanyVolumeAnyOwner(Tail(items), id)

\* faulty variant of CompanyVolume: the volume of a record whose company id has
\* no company of its own falls to the company of the nearest id below it
RECURSIVE CompanyVolumeWithStrays(_, _)
CompanyVolumeWithStrays(items, id) ==
    IF items = <<>> THEN 0
    ELSE (IF Head(items).companyId # NoCompany /\ Head(items).companyId >= id
             /\ Head(items).cubicMeters \notin {0, Null}
          THEN Head(items).cubicMeters ELSE 0)
         + CompanyVolumeWithStrays(Tail(items), id)

\* companyVolumes[id] after the forEach over the items: the cubicMeters of the
\* items that carry this company id and a volume that is neither 0 nor null,
\* added up in list order
RECURSIVE CompanyVolume(_, _)
CompanyVolume(items, id) ==
    IF items = <<>> THEN 0
    ELSE (IF Head(items).companyId # NoCompany /\ Head(items).companyId = id
             /\ Head(items).cubicMeters \notin {0, Null}
          THEN Head(items).cubicMeters ELSE 0)
         + CompanyVolume(Tail(items), id)

\* A sum that ends in 5 thousandths lies half way between two hundredths in
\* decimal; the double that holds it lies just above (1) or just below (-1),
\* which decides the way toFixed(2) rounds it.  No other sum is rounded by
\* its error (0).
DoubleErrors(totalVolume) == IF totalVolume % 10 = 5 THEN {-1, 1} ELSE {0}

\* faulty variant of InsertDesc: the order of the company list is kept
InsertLast(sorted, cv) == Append(sorted, cv)

\* faulty variant of SortDesc: a company is put before the companies of the
\* same sum that were met before it
RECURSIVE SortDescLatestFirst(_)
SortDescLatestFirst(cvs) ==
    IF cvs = <<>> THEN <<>>
    ELSE LET rest == SortDescLatestFirst(SubSeq(cvs, 1, Len(cvs) - 1))
             cv == cvs[Len(cvs)]
             before == SelectSeq(rest, LAMBDA x : x.totalVolume > cv.totalVolume)
             after == SelectSeq(rest, LAMBDA x : x.totalVolume <= cv.totalVolume)
         IN  before \o <<cv>> \o after

\* Array.prototype.sort((a, b) => b.totalVolume - a.totalVolume): stable
RECURSIVE InsertDesc(_, _)
InsertDesc(sorted, cv) ==
    IF sorted = <<>> THEN <<cv>>
    ELSE IF Head(sorted).totalVolume >= cv.totalVolume
         THEN <<Head(sorted)>> \o InsertDesc(Tail(sorted), cv)
         ELSE <<cv>> \o sorted

RECURSIVE SortDesc(_)
SortDesc(cvs) ==
    IF cvs = <<>> THEN <<>>
    ELSE InsertDesc(SortDesc(SubSeq(cvs, 1, Len(cvs) - 1)), cvs[Len(cvs)])

\* faulty variant of HasVolume: a company without volume is kept
HasVolumeOrNone(cv) == cv.totalVolume >= 0

\* the companies kept by filter(cv => cv.totalVolume > 0)
HasVolume(cv) == cv.totalVolume > 0

\* relevantCompanies of loadTopCompaniesByVolume(role)
RelevantCompanies(allCompanies, role) == SelectSeq(allCompanies, LAMBDA c : c.role = role)

\* the errors the doubles of the relevant companies' sums may carry: equal
\* sums are the same double and carry the same error
ErrorChoices(allCompanies, allItems, role) ==
    LET relevantCompanies == RelevantCompanies(allCompanies, role)
        sum(i) == CompanyVolume(allItems, relevantCompanies[i].id)
    IN  {err \in [1..Len(relevantCompanies) -> {-1, 0, 1}] :
            /\ \A i \in 1..Len(relevantCompanies) : err[i] \in DoubleErrors(sum(i))
            /\ \A i, j \in 1..Len(relevantCompanies) : sum(i) = sum(j) => err[i] = err[j]}

\* faulty variant of SortedCompanies: slice(0, topN) is left out
SortedCompaniesUncut(allCompanies, allItems, role, topN, err) ==
    LET relevantCompanies == RelevantCompanies(allCompanies, role)
        withVolume == [i \in 1..Len(relevantCompanies) |->
                          [company |-> relevantCompanies[i],
                           totalVolume |-> CompanyVolume(allItems, relevantCompanies[i].id),
                           err |-> err[i]]]
    IN  SortDesc(SelectSeq(withVolume, HasVolume))

\* sortedCompanies of loadTopCompaniesByVolume(role, topN), the sums carrying
\* the errors err
SortedCompanies(allCompanies, allItems, role, topN, err) ==
    LET relevantCompanies == RelevantCompanies(allCompanies, role)
        withVolume == [i \in 1..Len(relevantCompanies) |->
                          [company |-> relevantCompanies[i],
                           totalVolume |-> CompanyVolume(allItems, relevantCompanies[i].id),
                           err |-> err[i]]]
        sorted == SortDesc(SelectSeq(withVolume, HasVolume))
    IN  SubSeq(sorted, 1, IF Len(sorted) < topN THEN Len(sorted) ELSE topN)

\* faulty variant of ChartLabel: LabelLimit characters are kept before the dots
ChartLabelKeepingLimit(companyName) ==
    IF Len(companyName) > LabelLimit
    THEN SubSeq(companyName, 1, LabelLimit) \o <<".", ".", ".">>
    ELSE companyName

\* the label of a chart row
ChartLabel(companyName) ==
    IF Len(companyName) > LabelLimit
    THEN SubSeq(companyName, 1, LabelKept) \o <<".", ".", ".">>
    ELSE companyName

\* parseFloat(totalVolume.toFixed(2)) in hundredths, for a positive sum of
\* thousandths whose double carries the error err
ToFixed2(totalVolume, err) ==
    IF totalVolume % 10 = 5
    THEN (IF err > 0 THEN (totalVolume \div 10) + 1 ELSE totalVolume \div 10)
    ELSE RoundDiv(totalVolume, 10)

\* chartData of loadTopCompaniesByVolume (color left out)
ChartData(sortedCompanies) ==
    [i \in 1..Len(sortedCompanies) |->
        [label |-> ChartLabel(sortedCompanies[i].company.companyName),
         value |-> ToFixed2(sortedCompanies[i].totalVolume, sortedCompanies[i].err)]]

\* the chartData loadTopCompaniesByVolume(role, topN) may produce
TopCompaniesByVolume(allCompanies, allItems, role, topN) ==
    {ChartData(SortedCompanies(allCompanies, allItems, role, topN, err)) :
        err \in ErrorChoices(allCompanies, allItems, role)}

\* ------------------------------------------------------------------ AI responses

\* A JSON value: kind is "null", "boolean", "number", "string", "array" or
\* "object"; text holds the characters of a number, a string or a boolean,
\* items the elements of an array or the member values of an object, keys the
\* member names of an object, in the order of the text.
JsonValue(kind, text, items, keys) ==
    [kind |-> kind, text |-> text, items |-> items, keys |-> keys]
JsonNull == JsonValue("null", <<>>, <<>>, <<>>)
JsonBoolean(text) == JsonValue("boolean", text, <<>>, <<>>)
JsonNumber10(text) == JsonValue("number", text, <<>>, <<>>)
JsonString(text) == JsonValue("string", text, <<>>, <<>>)
JsonArray(items) == JsonValue("array", <<>>, items, <<>>)
JsonObject(keys, items) == JsonValue("object", <<>>, items, keys)

\* no result yet (null)
Pending == JsonValue("pending", <<>>, <<>>, <<>>)

WhiteSpace == {" ", "\n"}
WordChars ==
    Digits \cup {"_", "a", "b", "c", "d", "e", "f", "g", "h", "i", "j", "k", "l", "m", "n",
                 "o", "p", "q", "r", "s", "t", "u", "v", "w", "x", "y", "z",
                 "A", "B", "C", "G", "H", "I", "M"}

RECURSIVE SkipWhiteSpace(_)
SkipWhiteSpace(s) ==
    IF s # <<>> /\ Head(s) \in WhiteSpace THEN SkipWhiteSpace(Tail(s)) ELSE s

RECURSIVE DropWhiteSpaceAtEnd(_)
DropWhiteSpaceAtEnd(s) ==
    IF s # <<>> /\ s[Len(s)] \in WhiteSpace
    THEN DropWhiteSpaceAtEnd(SubSeq(s, 1, Len(s) - 1))
    ELSE s

\* String.prototype.trim
trim(s) == DropWhiteSpaceAtEnd(SkipWhiteSpace(s))

RECURSIVE SkipWordChars(_)
SkipWordChars(s) == IF s # <<>> /\ Head(s) \in WordChars THEN SkipWordChars(Tail(s)) ELSE s

StartsWith(s, prefix) == Len(s) >= Len(prefix) /\ SubSeq(s, 1, Len(prefix)) = prefix

\* the grave accent U+0060, a character that a string of this module cannot hold
GraveAccent == "U+0060"

Fence == <<GraveAccent, GraveAccent, GraveAccent>>

\* jsonStr.match(fenceRegex): whether the text begins and ends with a fence
FenceMatches(jsonStr) ==
    /\ Len(jsonStr) >= 2 * Len(Fence)
    /\ StartsWith(jsonStr, Fence)
    /\ SubSeq(jsonStr, Len(jsonStr) - Len(Fence) + 1, Len(jsonStr)) = Fence

\* match[2]: what stands between the fences after the word and the white
\* space that follow the opening fence, without the white space before the
\* closing fence
FenceGroup2(jsonStr) ==
    DropWhiteSpaceAtEnd(SkipWhiteSpace(SkipWordChars(
        SubSeq(jsonStr, Len(Fence) + 1, Len(jsonStr) - Len(Fence)))))

\* the outcome of reading a value from the front of a text
Failed == [ok |-> FALSE, value |-> JsonNull, rest |-> <<>>]
Read(value, rest) == [ok |-> TRUE, value |-> value, rest |-> rest]

\* the place of the first quotation mark of s, or 0
RECURSIVE QuoteAt(_, _)
QuoteAt(s, i) ==
    IF i > Len(s) THEN 0 ELSE IF s[i] = "\"" THEN i ELSE QuoteAt(s, i + 1)

\* a JSON string, s beginning with its quotation mark.  A raw line break ends
\* the parse; escapes are not read.
ReadString(s) ==
    LET close == QuoteAt(Tail(s), 1)
        chars == SubSeq(Tail(s), 1, close - 1)
    IN  IF close = 0 \/ \E i \in 1..Len(chars) : chars[i] \in {"\n", "\\"}
        THEN Failed
        ELSE Read(JsonString(chars), Drop(s, close + 1))

\* a JSON number: an optional sign and digits without a leading zero.
\* Fractions and exponents are not read.
ReadNumber(s) ==
    LET unsigned == IF Head(s) = "-" THEN Tail(s) ELSE s
        digits == DigitPrefix(unsigned)
    IN  IF digits = <<>> \/ (Len(digits) > 1 /\ Head(digits) = "0")
        THEN Failed
        ELSE Read(JsonNumber10(SubSeq(s, 1, Len(s) - Len(unsigned) + Len(digits))),
                  Drop(unsigned, Len(digits)))

RECURSIVE ReadValue(_)
RECURSIVE ReadElements(_, _)
RECURSIVE ReadMembers(_, _, _)

\* the elements of an array after "[" or ",", up to "]"
ReadElements(s, items) ==
    LET element == ReadValue(s)
        after == SkipWhiteSpace(element.rest)
    IN  IF ~element.ok \/ after = <<>> THEN Failed
        ELSE IF Head(after) = ","
             THEN ReadElements(Tail(after), Append(items, element.value))
        ELSE IF Head(after) = "]"
             THEN Read(JsonArray(Append(items, element.value)), Tail(after))
        ELSE Failed

\* the members of an object after "{" or ",", up to "}"
ReadMembers(s0, keys, items) ==
    LET s == SkipWhiteSpace(s0)
        key == IF s # <<>> /\ Head(s) = "\"" THEN ReadString(s) ELSE Failed
        colon == SkipWhiteSpace(key.rest)
        member == IF key.ok /\ colon # <<>> /\ Head(colon) = ":"
                  THEN ReadValue(Tail(colon))
                  ELSE Failed
        after == SkipWhiteSpace(member.rest)
    IN  IF ~member.ok \/ after = <<>> THEN Failed
        ELSE IF Head(after) = ","
             THEN ReadMembers(Tail(after), Append(keys, key.value.text),
                              Append(items, member.value))
        ELSE IF Head(after) = "}"
             THEN Read(JsonObject(Append(keys, key.value.text),
                                  Append(items, member.value)), Tail(after))
        ELSE Failed

ReadValue(s0) ==
    LET s == SkipWhiteSpace(s0)
    IN  IF s = <<>> THEN Failed
        ELSE IF StartsWith(s, <<"n", "u", "l", "l">>) THEN Read(JsonNull, Drop(s, 4))
        ELSE IF StartsWith(s, <<"t", "r", "u", "e">>)
             THEN Read(JsonBoolean(SubSeq(s, 1, 4)), Drop(s, 4))
        ELSE IF StartsWith(s, <<"f", "a", "l", "s", "e">>)
             THEN Read(JsonBoolean(SubSeq(s, 1, 5)), Drop(s, 5))
        ELSE IF Head(s) = "\"" THEN ReadString(s)
        ELSE IF Head(s) \in Digits \cup {"-"} THEN ReadNumber(s)
        ELSE IF Head(s) = "["
             THEN (IF StartsWith(SkipWhiteSpace(Tail(s)), <<"]">>)
                   THEN Read(JsonArray(<<>>), Tail(SkipWhiteSpace(Tail(s))))
                   ELSE ReadElements(Tail(s), <<>>))
        ELSE IF Head(s) = "{"
             THEN (IF StartsWith(SkipWhiteSpace(Tail(s)), <<"}">>)
                   THEN Read(JsonObject(<<>>, <<>>), Tail(SkipWhiteSpace(Tail(s))))
                   ELSE ReadMembers(Tail(s), <<>>, <<>>))
        ELSE Failed

\* JSON.parse: one value and nothing but white space after it; Failed is the
\* SyntaxError it throws
JSONparse(s) ==
    LET value == ReadValue(s)
    IN  IF value.ok /\ SkipWhiteSpace(value.rest) = <<>> THEN value ELSE Failed

\* the characters of the raw response an error message quotes
RawResponseShown == 100

\* t('customerNewDemand_error_failedToParseJson',
\*   {featureName, rawResponse: text.substring(0, 100)})
FailedToParseJson(text) ==
    <<"E", "r", "r", "o", "r", ":", " ">>
        \o SubSeq(text, 1, IF Len(text) < RawResponseShown THEN Len(text)
                           ELSE RawResponseShown)

\* parseJsonFromGeminiResponse<T>(text, featureNameKey): T | string
parseJsonFromGeminiResponse(text) ==
    LET trimmed == trim(text)
        jsonStr == IF FenceMatches(trimmed) /\ FenceGroup2(trimmed) # <<>>
                   THEN trim(FenceGroup2(trimmed))
                   ELSE trimmed
        parsed == JSONparse(jsonStr)
    IN  IF parsed.ok THEN parsed.value ELSE JsonString(FailedToParseJson(text))

\* ------------------------------------------------------------------ bounds and inputs

\* The stored lists grow without limit in the program.  Here a form is
\* submitted while the two lists together hold fewer than MaxItems records,
\* data is generated while they hold at most MaxItems, and the pages that
\* write are entered while they hold at most MaxItems.
MaxItems == 1

\* Math.floor(Math.random() * 2) + 2 records per company: at least 2, and
\* here at most MaxSimCount
MinSimCount == 2
MaxSimCount == 2

\* what the user types into a numeric field of a form
TypedValues(name) ==
    IF name = "diameterFrom" THEN {<<>>, <<"-", "8">>, <<"2">>}
    ELSE {<<>>, <<"2">>}

\* the company names the admin types
CompanyNames ==
    {<<"A", "b">>,
     <<"G", "a", "m", "m", "a", " ", "M", "a", "c", "a", "b", "a", "c", "a", "b", "a">>}

\* more names the admin may type: the name of the second generated customer
\* in small letters
MoreCompanyNames == CompanyNames \cup {<<"g", " ", "c", " ", "2">>}

Roles == {"Customer", "Manufacturer"}

\* the draws of handleGenerateSimulatedData: dFrom, dTo - dFrom, len, qty
SimDiameterFrom == {10}
SimDiameterStep == {4}
SimLength == {<<"2", ".", "0">>}
SimQuantity == {20}

\* t('adminUsers_generatedMockCompanyPrefix'), t('userRole_CUSTOMER'),
\* t('userRole_MANUFACTURER')
GeneratedPrefix == <<"G">>
RoleWord(role) == IF role = "Customer" THEN <<"C">> ELSE <<"M">>

\* ------------------------------------------------------------------ pages

FormPages == {"customerNewDemand", "manufacturerNewStock"}

\* the routes App renders for a role (the pages this model follows)
PagesOf(role) ==
    IF role = "Customer" THEN {"customerNewDemand"}
    ELSE IF role = "Manufacturer" THEN {"manufacturerNewStock"}
    ELSE IF role = "Administrator" THEN {"adminDashboard", "adminUsers"}
    ELSE {"login"}

\* the paths a user may put into the address bar: the root, the routes of
\* the three roles, and a path no route names
Addresses ==
    {"/", "customerNewDemand", "manufacturerNewStock", "adminDashboard", "adminUsers",
     "elsewhere"}

\* the page "/" redirects a role to
HomeOf(role) ==
    IF role = "Customer" THEN "customerNewDemand"
    ELSE IF role = "Manufacturer" THEN "manufacturerNewStock"
    ELSE IF role = "Administrator" THEN "adminDashboard"
    ELSE "login"

\* faulty variant of Render: the routes of all roles are rendered for any role
RenderAnyRoute(role, path) ==
    IF role = "none" THEN "login"
    ELSE IF path = "/" THEN HomeOf(role)
    ELSE IF \E r \in {"Customer", "Manufacturer", "Administrator"} : path \in PagesOf(r)
    THEN path
    ELSE "notFound"

\* the page App renders: LoginPage without a role; else the route of the
\* role that matches the path, the role's home for the root, and
\* PlaceholderPage for any other path
Render(role, path) ==
    IF role = "none" THEN "login"
    ELSE IF path = "/" THEN HomeOf(role)
    ELSE IF path \in PagesOf(role) THEN path
    ELSE "notFound"

\* the location after <Navigate to=... replace /> of the root route
Redirected(role, path) == IF role # "none" /\ path = "/" THEN HomeOf(role) ELSE path

NoSelection == [id |-> NoCompany, companyName |-> <<>>, role |-> "none"]

FeatureKeys ==
    {"orderStatusSummary", "stockStatusSummary", "topCustomersByVolume",
     "topManufacturersByVolume"}

\* AdminFeatureState before anything is loaded (<<>> is undefined)
initialDashboard ==
    [orderStatusSummary |-> <<>>, stockStatusSummary |-> <<>>,
     totalDemandsCount |-> 0, totalStockItemsCount |-> 0,
     topCustomersByVolume |-> <<>>, topManufacturersByVolume |-> <<>>]

\* no call of loadTopCompaniesByVolume yet: the parameter's default
initialTopN == [role \in Roles |-> DefaultTopN]

\* no AI request was made
NoAiRequest ==
    /\ aiFeature = "none"
    /\ responseText = <<>>
    /\ parsedResult = Pending

\* the result states of the AI features of the pages
ResultNames ==
    {"alternativeProducts", "productComparison", "aiAnalysisResult", "suggestedStock",
     "loadingPlan", "costEstimation", "freightOptimizationTips"}

\* useState(null) of the result states, and the undefined of AdminTruckPlanningState
NoResults == [name \in ResultNames |-> "null"]

\* useState(null) of the two selected demand ids of CustomerMyDemandsPage
NoneSelected == [selectedDemandIdForAi |-> "null", selectedDemandIdForStockSuggestion |-> "null"]

\* a page without a loading flag, a pending AI call or a result
NoRequests ==
    /\ aiLoading = {}
    /\ aiCalls = <<>>
    /\ aiResult = NoResults
    /\ aiSelected = NoneSelected

\* no submission was made
NoSubmission ==
    /\ newItem = <<>>
    /\ reported = <<>>

\* the assistant widget as it mounts
NoChat ==
    /\ inputValue = <<>>
    /\ chatHistory = <<>>
    /\ chatLoading = FALSE
    /\ chatError = FALSE
    /\ inFlight = <<>>

\* A page component mounts with its initial state.  The form pages schedule
\* the calculateCubicMeters effect, AdminUsersPage loads the stored companies,
\* AdminDashboardPage starts its four zero-delay loaders.
Mount(p) ==
    /\ p \in FormPages \cup {"adminUsers"} => Len(demands) + Len(stock) <= MaxItems
    /\ page' = p
    /\ formData' = initialFormData
    /\ recalcPending' = (p \in FormPages)
    /\ submitting' = FALSE
    /\ mockCompanies' = IF p = "adminUsers" THEN companies ELSE <<>>
    /\ showCompanyActionForm' = "none"
    /\ selectedCompanyForAction' = NoSelection
    /\ isLoading' = IF p = "adminDashboard" THEN FeatureKeys ELSE {}
    /\ dashboard' = initialDashboard
    /\ requestedTopN' = initialTopN
    /\ aiFeature' = "none"
    /\ responseText' = <<>>
    /\ parsedResult' = Pending
    /\ aiLoading' = {}
    /\ aiCalls' = <<>>
    /\ aiResult' = NoResults
    /\ aiSelected' = NoneSelected
    /\ newItem' = <<>>
    /\ reported' = <<>>
    /\ ai' = ai
    /\ inputValue' = <<>>
    /\ chatHistory' = <<>>
    /\ chatLoading' = FALSE
    /\ chatError' = FALSE
    /\ inFlight' = <<>>

Init ==
    /\ demands = <<>>
    /\ stock = <<>>
    /\ companies = <<>>
    /\ userRole = "none"
    /\ page = "login"
    /\ location = "/"
    /\ formData = initialFormData
    /\ recalcPending = FALSE
    /\ submitting = FALSE
    /\ mockCompanies = <<>>
    /\ showCompanyActionForm = "none"
    /\ selectedCompanyForAction = NoSelection
    /\ isLoading = {}
    /\ dashboard = initialDashboard
    /\ requestedTopN = initialTopN
    /\ NoAiRequest
    /\ NoRequests
    /\ NoSubmission
    /\ ai = TRUE
    /\ NoChat

\* LoginPage.handleLogin
handleLogin ==
    \E selectedRole \in {"Customer", "Manufacturer", "Administrator"} :
        /\ userRole = "none"
        /\ ~recalcPending
        /\ userRole' = selectedRole
        /\ location' = Redirected(selectedRole, location)
        /\ Mount(Render(selectedRole, location))
        /\ UNCHANGED storeVars

\* Layout.handleLogout
handleLogout ==
    /\ userRole # "none"
    /\ ~recalcPending
    /\ userRole' = "none"
    /\ location' = "/"
    /\ Mount("login")
    /\ UNCHANGED storeVars

\* a menu link to another page of the role
Navigate ==
    \E p \in PagesOf(userRole) :
        /\ userRole # "none"
        /\ ~recalcPending
        /\ p # page
        /\ location' = p
        /\ Mount(p)
        /\ UNCHANGED <<storeVars, userRole>>

\* the user puts another path into the address bar: without a role LoginPage
\* stays, with a role App renders the page of the path
openAddress ==
    \E path \in Addresses :
        /\ ~recalcPending
        /\ Redirected(userRole, path) # location
        /\ location' = Redirected(userRole, path)
        /\ IF userRole = "none"
           THEN UNCHANGED <<page, formVars, adminVars, dashVars, aiVars, requestVars,
                            submitVars, chatVars>>
           ELSE Mount(Render(userRole, path))
        /\ UNCHANGED <<storeVars, userRole>>

\* ------------------------------------------------------------------ form pages

AllFieldsFilled(fd) == \A name \in FieldNames : fd[name] # <<>>

\* faulty variant of handleInputChange: the change does not schedule the effect
handleInputChangeWithoutEffect ==
    \E name \in FieldNames : \E value \in TypedValues(name) :
        /\ page \in FormPages
        /\ ~recalcPending
        /\ formData' = [formData EXCEPT ![name] = value]
        /\ recalcPending' = FALSE
        /\ UNCHANGED <<aiVars, requestVars, chatVars, submitVars, storeVars, userRole, page, location, submitting, adminVars, dashVars>>

\* handleInputChange of the two form pages.  React runs a scheduled effect
\* before it handles the next event, so no handler runs while recalcPending.
handleInputChange ==
    \E name \in FieldNames : \E value \in TypedValues(name) :
        /\ page \in FormPages
        /\ ~recalcPending
        /\ formData' = [formData EXCEPT ![name] = value]
        /\ recalcPending' = (value # formData[name])
        /\ UNCHANGED <<aiVars, requestVars, chatVars, submitVars, storeVars, userRole, page, location, submitting, adminVars, dashVars>>

\* the effect on [calculateCubicMeters]
calculateCubicMetersEffect ==
    /\ recalcPending
    /\ formData' = [formData EXCEPT !.cubicMeters = calculateCubicMeters(formData)]
    /\ recalcPending' = FALSE
    /\ UNCHANGED <<aiVars, requestVars, chatVars, submitVars, storeVars, userRole, page, location, submitting, adminVars, dashVars>>

\* faulty variant of Prepend: the stored list is replaced by the new records
PrependToNothing(new, existing, saved) == IF saved THEN new ELSE existing

\* faulty variant of Prepend: the stored records are written back as "Processing"
PrependRestamped(new, existing, saved) ==
    IF saved
    THEN new \o [i \in 1..Len(existing) |-> [existing[i] EXCEPT !.status = "Processing"]]
    ELSE existing

\* the record whose success handleCompanyActionFormSubmit alerts: the alert
\* follows setItem inside try, and catch alerts the error instead
Reported(new, saved) == IF saved THEN new ELSE <<>>

\* [newItem, ...existing] written by localStorage.setItem, which may throw
\* (the handlers catch it and go on)
Prepend(new, existing, saved) == IF saved THEN new \o existing ELSE existing

\* isAnyLoading of CustomerNewDemandPage and of AdminTruckPlanningPage: some
\* value of the page's isLoading record is true (isLoading.submit is submitting)
isAnyLoading == submitting \/ aiLoading # {}

\* faulty variant of handleSubmitDemand: the submit button is disabled by
\* isLoading.submit alone, not by the flags of the AI features
handleSubmitDemandWhileAiLoads ==
    \E saved \in BOOLEAN :
        /\ page = "customerNewDemand"
        /\ ~recalcPending
        /\ ~submitting
        /\ AllFieldsFilled(formData)
        /\ Len(demands) + Len(stock) < MaxItems
        /\ submitting' = TRUE
        /\ demands' = Prepend(<<Item(formData, formData.cubicMeters, "Received", NoCompany)>>,
                              demands, saved)
        /\ newItem' = <<Item(formData, formData.cubicMeters, "Received", NoCompany)>>
        /\ UNCHANGED <<aiVars, requestVars, chatVars, reported, stock, companies, userRole, page, location, formData, recalcPending,
                       adminVars, dashVars>>

\* handleSubmit of CustomerNewDemandPage, behind its submit button
handleSubmitDemand ==
    \E saved \in BOOLEAN :
        /\ page = "customerNewDemand"
        /\ ~recalcPending
        /\ ~isAnyLoading
        /\ AllFieldsFilled(formData)
        /\ Len(demands) + Len(stock) < MaxItems
        /\ submitting' = TRUE
        /\ demands' = Prepend(<<Item(formData, formData.cubicMeters, "Received", NoCompany)>>,
                              demands, saved)
        /\ newItem' = <<Item(formData, formData.cubicMeters, "Received", NoCompany)>>
        /\ UNCHANGED <<aiVars, requestVars, chatVars, reported, stock, companies, userRole, page, location, formData, recalcPending,
                       adminVars, dashVars>>

\* handleSubmit of ManufacturerNewStockPage, behind its submit button
handleSubmitStock ==
    \E saved \in BOOLEAN :
        /\ page = "manufacturerNewStock"
        /\ ~recalcPending
        /\ ~submitting
        /\ AllFieldsFilled(formData)
        /\ Len(demands) + Len(stock) < MaxItems
        /\ submitting' = TRUE
        /\ stock' = Prepend(<<Item(formData, formData.cubicMeters, "Available", NoCompany)>>,
                            stock, saved)
        /\ newItem' = <<Item(formData, formData.cubicMeters, "Available", NoCompany)>>
        /\ UNCHANGED <<aiVars, requestVars, chatVars, reported, demands, companies, userRole, page, location, formData, recalcPending,
                       adminVars, dashVars>>

\* the 1500 ms timer of handleSubmit: the success is alerted with the id of
\* the new record and the form is reset
submitTimeout ==
    /\ page \in FormPages
    /\ submitting
    /\ ~recalcPending
    /\ reported' = newItem
    /\ newItem' = <<>>
    /\ formData' = initialFormData
    /\ recalcPending' = (\E name \in FieldNames : formData[name] # <<>>)
    /\ submitting' = FALSE
    /\ aiResult' = IF page = "customerNewDemand"
                   THEN [aiResult EXCEPT !.alternativeProducts = "null",
                                         !.productComparison = "null"]
                   ELSE aiResult
    /\ UNCHANGED <<aiVars, aiLoading, aiCalls, aiSelected, chatVars, storeVars, userRole, page, location,
                   adminVars, dashVars>>

\* ------------------------------------------------------------------ admin users page

\* state.mockCompanies.find(c => c.companyName.toLowerCase() === name.toLowerCase())
NameExists(list, name) ==
    \E i \in 1..Len(list) : toLowerCase(list[i].companyName) = toLowerCase(name)

\* `comp-${Date.now()}`: an id no company of the list carries
FreshId(list, k) == Len(list) + k

\* handleAddCompany with a name of names typed in (the address is left out)
handleAddCompanyNamed(names) ==
    \E newCompanyName \in names \cup {<<>>} : \E newCompanyRole \in Roles :
        /\ page = "adminUsers"
        /\ IF newCompanyName = <<>> \/ NameExists(mockCompanies, newCompanyName)
           THEN UNCHANGED vars
           ELSE LET newCompany == [id |-> FreshId(mockCompanies, 1),
                                   companyName |-> newCompanyName,
                                   role |-> newCompanyRole]
                    updatedCompanies == Append(mockCompanies, newCompany)
                IN  /\ mockCompanies' = updatedCompanies
                    /\ companies' = updatedCompanies
                    /\ UNCHANGED <<aiVars, requestVars, chatVars, submitVars, demands, stock, userRole, page, location, formVars,
                                   showCompanyActionForm, selectedCompanyForAction, dashVars>>

handleAddCompany == handleAddCompanyNamed(CompanyNames)

\* handleAddCompany with any of the larger set of names
handleAddCompanyOfAnyName == handleAddCompanyNamed(MoreCompanyNames)

\* openCompanyActionForm, from the button a company of that role shows
openCompanyActionForm ==
    \E i \in 1..Len(mockCompanies) :
        /\ page = "adminUsers"
        /\ Len(demands) + Len(stock) < MaxItems
        /\ showCompanyActionForm' =
               IF mockCompanies[i].role = "Customer" THEN "demand" ELSE "stock"
        /\ selectedCompanyForAction' = mockCompanies[i]
        /\ formData' = initialFormData
        /\ UNCHANGED <<aiVars, requestVars, chatVars, submitVars, storeVars, userRole, page, location, recalcPending, submitting,
                       mockCompanies, dashVars>>

\* the cancel button of the company action form
cancelCompanyActionForm ==
    /\ page = "adminUsers"
    /\ showCompanyActionForm # "none"
    /\ showCompanyActionForm' = "none"
    /\ selectedCompanyForAction' = NoSelection
    /\ UNCHANGED <<aiVars, requestVars, chatVars, submitVars, storeVars, userRole, page, location, formVars, mockCompanies, dashVars>>

\* handleCompanyActionFormInputChange
handleCompanyActionFormInputChange ==
    \E name \in FieldNames : \E value \in TypedValues(name) :
        /\ page = "adminUsers"
        /\ showCompanyActionForm # "none"
        /\ selectedCompanyForAction # NoSelection
        /\ formData' = [formData EXCEPT ![name] = value]
        /\ UNCHANGED <<aiVars, requestVars, chatVars, submitVars, storeVars, userRole, page, location, recalcPending, submitting,
                       adminVars, dashVars>>

\* handleCompanyActionFormSubmit
handleCompanyActionFormSubmit ==
    \E saved \in BOOLEAN :
        /\ page = "adminUsers"
        /\ showCompanyActionForm # "none"
        /\ selectedCompanyForAction # NoSelection
        /\ Len(demands) + Len(stock) < MaxItems
        /\ IF ~AllFieldsFilled(formData)
           THEN UNCHANGED vars
           ELSE LET cubicMeters == adminCubicMeters(formData)
                    id == selectedCompanyForAction.id
                IN  /\ IF showCompanyActionForm = "demand"
                       THEN /\ demands' = Prepend(<<Item(formData, cubicMeters, "Received", id)>>,
                                                  demands, saved)
                            /\ UNCHANGED stock
                       ELSE /\ stock' = Prepend(<<Item(formData, cubicMeters, "Available", id)>>,
                                                stock, saved)
                            /\ UNCHANGED demands
                    /\ reported' = Reported(
                           <<Item(formData, cubicMeters,
                                  IF showCompanyActionForm = "demand" THEN "Received"
                                  ELSE "Available", id)>>, saved)
                    /\ showCompanyActionForm' = "none"
                    /\ selectedCompanyForAction' = NoSelection
                    /\ formData' = initialFormData
                    /\ UNCHANGED <<aiVars, requestVars, chatVars, newItem, companies, userRole, page, location, recalcPending, submitting,
                                   mockCompanies, dashVars>>

\* the companies handleGenerateSimulatedData adds so that the role has two
RECURSIVE GeneratedCompanies(_, _, _, _)
GeneratedCompanies(role, i, count, nextId) ==
    IF i >= count THEN <<>>
    ELSE <<[id |-> nextId,
            companyName |-> GeneratedPrefix \o <<" ">> \o RoleWord(role) \o <<" ">>
                            \o NumberToString(i + 1),
            role |-> role]>>
         \o GeneratedCompanies(role, i + 1, count, nextId + 1)

\* one generated record of a company: the draws, their strings and the volume
SimItem(company, status, dFrom, step, len, qty) ==
    [diameterFrom |-> NumberToString(dFrom),
     diameterTo |-> NumberToString(dFrom + step),
     length |-> len,
     quantity |-> NumberToString(qty),
     cubicMeters |-> VolumeMilli((dFrom + dFrom + step) * Scale, parseFloat(len).v, qty),
     status |-> status,
     companyId |-> company.id]

SimItems(company, status) ==
    {SimItem(company, status, dFrom, step, len, qty) :
        dFrom \in SimDiameterFrom, step \in SimDiameterStep,
        len \in SimLength, qty \in SimQuantity}

RECURSIVE SeqsOfLength(_, _)
SeqsOfLength(S, n) ==
    IF n = 0 THEN {<<>>}
    ELSE {<<x>> \o rest : x \in S, rest \in SeqsOfLength(S, n - 1)}

\* the lists the forEach over the companies may generate: 2 or 3 records each
RECURSIVE GeneratedItems(_, _)
GeneratedItems(list, status) ==
    IF list = <<>> THEN {<<>>}
    ELSE {first \o rest :
            first \in UNION {SeqsOfLength(SimItems(Head(list), status), n) :
                                n \in MinSimCount..MaxSimCount},
            rest \in GeneratedItems(Tail(list), status)}

\* handleGenerateSimulatedData; the two setItem calls share one try block
handleGenerateSimulatedData ==
    LET oldCustomers == SelectSeq(mockCompanies, LAMBDA c : c.role = "Customer")
        oldManufacturers == SelectSeq(mockCompanies, LAMBDA c : c.role = "Manufacturer")
        newCustomers == GeneratedCompanies("Customer", Len(oldCustomers), 2,
                                           FreshId(mockCompanies, 1))
        newManufacturers == GeneratedCompanies("Manufacturer", Len(oldManufacturers), 2,
                                               FreshId(mockCompanies, 1 + Len(newCustomers)))
        generatedCompanies == newCustomers \o newManufacturers
        currentMockCompanies == mockCompanies \o generatedCompanies
    IN  \E generatedDemands \in GeneratedItems(oldCustomers \o newCustomers, "Received") :
        \E generatedStockItems \in
                GeneratedItems(oldManufacturers \o newManufacturers, "Available") :
        \E saved \in {"both", "demands", "none"} :
            /\ page = "adminUsers"
            /\ Len(demands) + Len(stock) <= MaxItems
            /\ mockCompanies' = currentMockCompanies
            /\ companies' = IF generatedCompanies # <<>> THEN currentMockCompanies
                            ELSE companies
            /\ demands' = Prepend(generatedDemands, demands, saved # "none")
            /\ stock' = Prepend(generatedStockItems, stock, saved = "both")
            /\ UNCHANGED <<aiVars, requestVars, chatVars, submitVars, userRole, page, location, formVars, showCompanyActionForm,
                           selectedCompanyForAction, dashVars>>

\* ------------------------------------------------------------------ admin dashboard

\* The mount effect starts the loaders with setTimeout(..., 0) in the order
\* orderStatusSummary, stockStatusSummary, topCustomersByVolume,
\* topManufacturersByVolume; timers of one delay fire in the order they were set.

\* faulty variant of loadOrderStatusSummary: the demands that were counted are
\* taken out of the store
loadOrderStatusSummaryConsuming ==
    /\ page = "adminDashboard"
    /\ "orderStatusSummary" \in isLoading
    /\ dashboard' = [dashboard EXCEPT
                        !.orderStatusSummary = StatusSummary(demands, DemandStatuses),
                        !.totalDemandsCount = Len(demands)]
    /\ isLoading' = isLoading \ {"orderStatusSummary"}
    /\ demands' = <<>>
    /\ UNCHANGED <<aiVars, requestVars, chatVars, submitVars, stock, companies, userRole, page, location, formVars, adminVars, requestedTopN>>

\* the timer of handleAiFeatureClick('orderStatusSummary', ..., 0)
loadOrderStatusSummary ==
    /\ page = "adminDashboard"
    /\ "orderStatusSummary" \in isLoading
    /\ dashboard' = [dashboard EXCEPT
                        !.orderStatusSummary = StatusSummary(demands, DemandStatuses),
                        !.totalDemandsCount = Len(demands)]
    /\ isLoading' = isLoading \ {"orderStatusSummary"}
    /\ UNCHANGED <<aiVars, requestVars, chatVars, submitVars, storeVars, userRole, page, location, formVars, adminVars, requestedTopN>>

\* the timer of handleAiFeatureClick('stockStatusSummary', ..., 0)
loadStockStatusSummary ==
    /\ page = "adminDashboard"
    /\ "stockStatusSummary" \in isLoading
    /\ "orderStatusSummary" \notin isLoading
    /\ dashboard' = [dashboard EXCEPT
                        !.stockStatusSummary = StatusSummary(stock, StockStatuses),
                        !.totalStockItemsCount = Len(stock)]
    /\ isLoading' = isLoading \ {"stockStatusSummary"}
    /\ UNCHANGED <<aiVars, requestVars, chatVars, submitVars, storeVars, userRole, page, location, formVars, adminVars, requestedTopN>>

\* loadTopCompaniesByVolume(role, topN): reads the store, sets the role's list
loadTopCompaniesByVolume(role, n) ==
    LET allItems == IF role = "Customer" THEN demands ELSE stock
    IN  \E chartData \in TopCompaniesByVolume(companies, allItems, role, n) :
            /\ dashboard' = IF role = "Customer"
                             THEN [dashboard EXCEPT !.topCustomersByVolume = chartData]
                             ELSE [dashboard EXCEPT !.topManufacturersByVolume = chartData]
            /\ requestedTopN' = [requestedTopN EXCEPT ![role] = n]

\* the timer of handleAiFeatureClick('topCustomersByVolume', ..., 0):
\* loadTopCompaniesByVolume(UserRole.CUSTOMER)
loadTopCustomersByVolume ==
    /\ page = "adminDashboard"
    /\ "topCustomersByVolume" \in isLoading
    /\ "stockStatusSummary" \notin isLoading
    /\ loadTopCompaniesByVolume("Customer", DefaultTopN)
    /\ isLoading' = isLoading \ {"topCustomersByVolume"}
    /\ UNCHANGED <<aiVars, requestVars, chatVars, submitVars, storeVars, userRole, page, location, formVars, adminVars>>

\* the timer of handleAiFeatureClick('topManufacturersByVolume', ..., 0):
\* loadTopCompaniesByVolume(UserRole.MANUFACTURER)
loadTopManufacturersByVolume ==
    /\ page = "adminDashboard"
    /\ "topManufacturersByVolume" \in isLoading
    /\ "topCustomersByVolume" \notin isLoading
    /\ loadTopCompaniesByVolume("Manufacturer", DefaultTopN)
    /\ isLoading' = isLoading \ {"topManufacturersByVolume"}
    /\ UNCHANGED <<aiVars, requestVars, chatVars, submitVars, storeVars, userRole, page, location, formVars, adminVars>>

\* ------------------------------------------------------------------ specification

Next ==
    \/ handleLogin
    \/ handleLogout
    \/ Navigate
    \/ openAddress
    \/ handleInputChange
    \/ calculateCubicMetersEffect
    \/ handleSubmitDemand
    \/ handleSubmitStock
    \/ submitTimeout
    \/ handleAddCompany
    \/ openCompanyActionForm
    \/ cancelCompanyActionForm
    \/ handleCompanyActionFormInputChange
    \/ handleCompanyActionFormSubmit
    \/ handleGenerateSimulatedData
    \/ loadOrderStatusSummary
    \/ loadStockStatusSummary
    \/ loadTopCustomersByVolume
    \/ loadTopManufacturersByVolume

Spec == Init /\ [][Next]_vars

\* ------------------------------------------------------------------ drawn inputs

\* the longest status list, item list and company list drawn
MaxListLen == 3
MaxRankItems == 2
MaxRankCompanies == 2

SeqsUpTo(S, n) == UNION {SeqsOfLength(S, k) : k \in 0..n}

Range(f) == {f[i] : i \in DOMAIN f}

FormOf(dFrom, dTo, len, qty) ==
    [diameterFrom |-> dFrom, diameterTo |-> dTo, length |-> len, quantity |-> qty,
     cubicMeters |-> 0]

\* the strings drawn for a field of a form: empty, not a number, zero, negative,
\* whole, with a decimal, and the word parseFloat reads as Infinity
VolStrings ==
    {<<>>, <<"a">>, <<"0">>, <<"-", "8">>, <<"2">>, <<"2", ".", "5">>, InfinityLiteral}

\* a customer company and a manufacturer company of the admin's list
SampleCompanies ==
    <<[id |-> 1, companyName |-> <<"A", "b">>, role |-> "Customer"],
      [id |-> 2, companyName |-> <<"B", "c">>, role |-> "Manufacturer"]>>

\* A form filled with drawn strings: on a form page with the effect scheduled,
\* or in the admin's company action form opened for a company.
InitVol ==
    \E dFrom \in VolStrings, dTo \in VolStrings, len \in VolStrings, qty \in VolStrings :
    \E ctx \in {"customerNewDemand", "manufacturerNewStock", "demand", "stock"} :
        /\ demands = <<>>
        /\ stock = <<>>
        /\ companies = SampleCompanies
        /\ formData = FormOf(dFrom, dTo, len, qty)
        /\ submitting = FALSE
        /\ isLoading = {}
        /\ dashboard = initialDashboard
        /\ requestedTopN = initialTopN
        /\ NoAiRequest
        /\ NoRequests
        /\ NoSubmission
        /\ ai = TRUE
        /\ NoChat
        /\ IF ctx \in FormPages
           THEN /\ userRole = (IF ctx = "customerNewDemand" THEN "Customer" ELSE "Manufacturer")
                /\ page = ctx
                /\ location = ctx
                /\ recalcPending = TRUE
                /\ mockCompanies = <<>>
                /\ showCompanyActionForm = "none"
                /\ selectedCompanyForAction = NoSelection
           ELSE /\ userRole = "Administrator"
                /\ page = "adminUsers"
                /\ location = "adminUsers"
                /\ recalcPending = FALSE
                /\ mockCompanies = SampleCompanies
                /\ showCompanyActionForm = ctx
                /\ selectedCompanyForAction =
                       SampleCompanies[IF ctx = "demand" THEN 1 ELSE 2]

NextVol ==
    \/ calculateCubicMetersEffect
    \/ handleSubmitDemand
    \/ handleSubmitStock
    \/ submitTimeout
    \/ handleCompanyActionFormSubmit

SpecVol == InitVol /\ [][NextVol]_vars

\* the admin dashboard as it mounts over a stored state
DashboardOver(ds, ss, cs) ==
    /\ demands = ds
    /\ stock = ss
    /\ companies = cs
    /\ userRole = "Administrator"
    /\ page = "adminDashboard"
    /\ location = "adminDashboard"
    /\ formData = initialFormData
    /\ recalcPending = FALSE
    /\ submitting = FALSE
    /\ mockCompanies = <<>>
    /\ showCompanyActionForm = "none"
    /\ selectedCompanyForAction = NoSelection
    /\ isLoading = FeatureKeys
    /\ dashboard = initialDashboard
    /\ requestedTopN = initialTopN
    /\ NoAiRequest
    /\ NoRequests
    /\ NoSubmission
    /\ ai = TRUE
    /\ NoChat

NextDashboard ==
    \/ loadOrderStatusSummary
    \/ loadStockStatusSummary
    \/ loadTopCustomersByVolume
    \/ loadTopManufacturersByVolume

\* the form behind the records of the drawn status lists
SampleForm == FormOf(<<"2">>, <<"2">>, <<"2">>, <<"2">>)

\* Stored lists of up to MaxListLen records with any statuses of their enumeration.
InitAgg ==
    \E ds \in SeqsUpTo(Range(DemandStatuses), MaxListLen) :
    \E ss \in SeqsUpTo(Range(StockStatuses), MaxListLen) :
        DashboardOver(
            [i \in 1..Len(ds) |->
                Item(SampleForm, calculateCubicMeters(SampleForm), ds[i], NoCompany)],
            [i \in 1..Len(ss) |->
                Item(SampleForm, calculateCubicMeters(SampleForm), ss[i], NoCompany)],
            <<>>)

SpecAgg == InitAgg /\ [][NextDashboard]_vars

\* a name of LabelLimit + 1 characters, and its first LabelLimit characters
LongName ==
    <<"G", "a", "m", "m", "a", " ", "M", "a", "c", "a", "b", "a", "c", "a", "b", "a">>
LimitName == SubSeq(LongName, 1, LabelLimit)

RankNames == {<<"A", "b">>, LimitName, LongName}

\* forms of 0.001, 0.005 and 0.010 cubic metres
RankForms ==
    {FormOf(<<"2">>, <<"2">>, <<"2">>, <<"2">>),
     FormOf(<<"4">>, <<"4">>, <<"4">>, <<"1">>),
     FormOf(<<"8">>, <<"8">>, <<"2">>, <<"1">>)}

\* Up to MaxRankCompanies companies with distinct names, ids 1, 2, ..., and up to
\* MaxRankItems records, each of no company, of a listed company or of a
\* company that is not listed; the same records as demands and as stock.
InitRank ==
    \E cs \in SeqsUpTo(RankNames \X Roles, MaxRankCompanies) :
    \E its \in SeqsUpTo(RankForms \X (0..MaxRankCompanies), MaxRankItems) :
        /\ \A i, j \in 1..Len(cs) : i # j => cs[i][1] # cs[j][1]
        /\ DashboardOver(
            [i \in 1..Len(its) |->
                Item(its[i][1], calculateCubicMeters(its[i][1]), "Received", its[i][2])],
            [i \in 1..Len(its) |->
                Item(its[i][1], calculateCubicMeters(its[i][1]), "Available", its[i][2])],
            [i \in 1..Len(cs) |-> [id |-> i, companyName |-> cs[i][1], role |-> cs[i][2]]])

SpecRank == InitRank /\ [][NextDashboard]_vars

\* the largest topN a drawn call of loadTopCompaniesByVolume asks for
MaxTopN == 2

\* loadTopCompaniesByVolume called with either role and any topN up to MaxTopN
\* over the drawn companies and records
NextTop ==
    \E role \in Roles :
    \E n \in 0..MaxTopN :
        /\ loadTopCompaniesByVolume(role, n)
        /\ UNCHANGED <<aiVars, requestVars, chatVars, submitVars, storeVars, userRole, page, location, formVars, adminVars, isLoading>>

SpecTop == InitRank /\ [][NextTop]_vars

\* ------------------------------------------------------------------ drawn AI responses

\* the AI features whose JSON answers are parsed, and the page of each
AiFeatures == {"alternatives", "stockSuggestions", "monthlySummary"}
AiPageOf(feature) ==
    CASE feature = "alternatives" -> "customerNewDemand"
      [] feature = "stockSuggestions" -> "customerMyDemands"
      [] feature = "monthlySummary" -> "adminAiReports"

\* an answer of the shape asked of suggestAlternativeProductsWithGemini
AlternativesText ==
    <<"[", "{", "\"", "n", "a", "m", "e", "\"", ":", "\"", "a", "\"", ",", "\"", "s", "p",
      "e", "c", "s", "\"", ":", "\"", "b", "\"", "}", "]">>

\* an answer of the shape asked of generateSimilarStockSuggestionsWithGemini
StockSuggestionsText ==
    <<"[", "{", "\"", "s", "t", "o", "c", "k", "I", "t", "e", "m", "I", "d", "\"", ":",
      "\"", "s", "\"", ",", "\"", "r", "e", "a", "s", "o", "n", "\"", ":", "\"", "r",
      "\"", "}", "]">>

\* an answer of the shape asked of the monthly platform summary
MonthlySummaryText ==
    <<"{", "\"", "m", "o", "n", "t", "h", "\"", ":", "\"", "m", "\"", ",", "\"", "n", "e",
      "w", "D", "e", "m", "a", "n", "d", "s", "\"", ":", "1", ",", "\"", "n", "e", "w",
      "S", "t", "o", "c", "k", "I", "t", "e", "m", "s", "\"", ":", "2", ",", "\"", "s",
      "u", "c", "c", "e", "s", "s", "f", "u", "l", "M", "a", "t", "c", "h", "e", "s",
      "\"", ":", "0", ",", "\"", "a", "i", "I", "n", "t", "e", "r", "p", "r", "e", "t",
      "a", "t", "i", "o", "n", "\"", ":", "\"", "i", "\"", "}">>

\* answers: the three shapes, other JSON values, and texts that are not JSON
ResponseBodies ==
    {AlternativesText, StockSuggestionsText, MonthlySummaryText,
     <<"[", "]">>,
     <<"{", "}">>,
     <<"n", "u", "l", "l">>,
     <<"7">>,
     <<"t", "r", "u", "e">>,
     <<"\"", "o", "k", "\"">>,
     <<"[", "1", "]">>,
     <<"[", " ", "{", "\"", "n", "a", "m", "e", "\"", " ", ":", " ", "\"", "a", "\"", "}",
      " ", "]">>,
     <<"{", "\"", "m", "o", "n", "t", "h", "\"", ":", "5", "}">>,
     <<>>,
     <<"a", "b", "c">>,
     <<"{">>,
     <<"[", "1", ",", "]">>,
     <<"{", "\"", "a", "\"", ":", "1">>,
     <<"H", "e", "r", "e", ":", " ", "[", "]">>,
     <<"[", "]", "]">>,
     <<"0", "1">>}

\* the ways an answer is wrapped: bare, in white space, in a fence with or
\* without a language word and line breaks
Wrapped(body) ==
    {body,
     <<" ">> \o body \o <<"\n">>,
     Fence \o <<"j", "s", "o", "n", "\n">> \o body \o <<"\n">> \o Fence,
     Fence \o <<"\n">> \o body \o <<"\n">> \o Fence,
     Fence \o body \o Fence}

ResponseTexts == UNION {Wrapped(body) : body \in ResponseBodies}

\* A signed-in user on the page of an AI feature whose request was answered
\* with a drawn text.
InitParse ==
    \E feature \in AiFeatures :
    \E text \in ResponseTexts :
        /\ demands = <<>>
        /\ stock = <<>>
        /\ companies = <<>>
        /\ userRole = (IF feature = "monthlySummary" THEN "Administrator" ELSE "Customer")
        /\ page = AiPageOf(feature)
        /\ location = AiPageOf(feature)
        /\ formData = initialFormData
        /\ recalcPending = FALSE
        /\ submitting = FALSE
        /\ mockCompanies = <<>>
        /\ showCompanyActionForm = "none"
        /\ selectedCompanyForAction = NoSelection
        /\ isLoading = {}
        /\ dashboard = initialDashboard
        /\ requestedTopN = initialTopN
        /\ aiFeature = feature
        /\ responseText = text
        /\ parsedResult = Pending
        /\ NoRequests
        /\ NoSubmission
        /\ ai = TRUE
        /\ NoChat

\* const parsedResult = parseJsonFromGeminiResponse<T>(response.text, ...)
parseResponse ==
    /\ aiFeature # "none"
    /\ parsedResult = Pending
    /\ parsedResult' = parseJsonFromGeminiResponse(responseText)
    /\ UNCHANGED <<requestVars, submitVars, chatVars, storeVars, userRole, page, location, formVars, adminVars, dashVars,
                   aiFeature,
                   responseText>>

NextParse == parseResponse

SpecParse == InitParse /\ [][NextParse]_vars

\* The administrator on the users page over an empty store.
InitCompanies ==
    /\ demands = <<>>
    /\ stock = <<>>
    /\ companies = <<>>
    /\ userRole = "Administrator"
    /\ page = "adminUsers"
    /\ location = "adminUsers"
    /\ formData = initialFormData
    /\ recalcPending = FALSE
    /\ submitting = FALSE
    /\ mockCompanies = <<>>
    /\ showCompanyActionForm = "none"
    /\ selectedCompanyForAction = NoSelection
    /\ isLoading = {}
    /\ dashboard = initialDashboard
    /\ requestedTopN = initialTopN
    /\ NoAiRequest
    /\ NoRequests
    /\ newItem = <<>>
    /\ reported = <<>>
    /\ ai = TRUE
    /\ NoChat

NextCompanies ==
    \/ handleAddCompanyOfAnyName
    \/ handleGenerateSimulatedData

SpecCompanies == InitCompanies /\ [][NextCompanies]_vars

\* ------------------------------------------------------------------ assistant chat

\* what the user has in the input of the assistant: nothing, a blank, a question,
\* another question
ChatInputs == {<<>>, <<" ">>, <<"h", "i">>, <<"?">>}

\* the most messages the user sends and gets answered
MaxMessages == 2

\* onChange of the Textarea
handleChatInputChange ==
    \E text \in ChatInputs :
        /\ page = "adminDashboard"
        /\ inputValue' = text
        /\ UNCHANGED <<aiVars, requestVars, submitVars, storeVars, userRole, page, location, formVars, adminVars,
                       dashVars, ai, chatHistory, chatLoading, chatError, inFlight>>

\* handleSendMessage up to its await
handleSendMessage ==
    /\ Len(chatHistory) + Len(inFlight) < 2 * MaxMessages
    /\ IF trim(inputValue) = <<>>
       THEN UNCHANGED chatVars
       ELSE IF ~ai
       THEN /\ chatError' = TRUE
            /\ chatHistory' = Append(chatHistory, [sender |-> "gemini", text |-> <<"e">>])
            /\ UNCHANGED <<ai, inputValue, chatLoading, inFlight>>
       ELSE /\ chatHistory' = Append(chatHistory, [sender |-> "user", text |-> inputValue])
            /\ inputValue' = <<>>
            /\ chatLoading' = TRUE
            /\ chatError' = FALSE
            /\ inFlight' = Append(inFlight, inputValue)
            /\ ai' = ai
    /\ UNCHANGED <<aiVars, requestVars, submitVars, storeVars, userRole, page, location, formVars, adminVars, dashVars>>

\* the send button, disabled={isLoading || !inputValue.trim()}
sendByButton ==
    /\ page = "adminDashboard"
    /\ ~chatLoading
    /\ trim(inputValue) # <<>>
    /\ handleSendMessage

\* onKeyPress of the Textarea: Enter without Shift
sendByEnter ==
    /\ page = "adminDashboard"
    /\ handleSendMessage

\* a generateContent call of the widget settles, with an answer or with an
\* error: the rest of handleSendMessage, try, catch and finally
chatSettles ==
    \E i \in 1..Len(inFlight) :
    \E failed \in BOOLEAN :
        /\ page = "adminDashboard"
        /\ inFlight' = SubSeq(inFlight, 1, i - 1) \o SubSeq(inFlight, i + 1, Len(inFlight))
        /\ chatHistory' = Append(chatHistory,
                                 [sender |-> "gemini",
                                  text |-> IF failed THEN <<"e">> ELSE <<"o", "k">>])
        /\ chatError' = (chatError \/ failed)
        /\ chatLoading' = FALSE
        /\ UNCHANGED <<aiVars, requestVars, submitVars, storeVars, userRole, page, location, formVars, adminVars,
                       dashVars, ai, inputValue>>

\* The administrator on the dashboard, with or without an AI client.
InitChat ==
    \E client \in BOOLEAN :
        /\ demands = <<>>
        /\ stock = <<>>
        /\ companies = <<>>
        /\ userRole = "Administrator"
        /\ page = "adminDashboard"
        /\ location = "adminDashboard"
        /\ formData = initialFormData
        /\ recalcPending = FALSE
        /\ submitting = FALSE
        /\ mockCompanies = <<>>
        /\ showCompanyActionForm = "none"
        /\ selectedCompanyForAction = NoSelection
        /\ isLoading = FeatureKeys
        /\ dashboard = initialDashboard
        /\ requestedTopN = initialTopN
        /\ NoAiRequest
        /\ NoRequests
        /\ newItem = <<>>
        /\ reported = <<>>
        /\ ai = client
        /\ NoChat

NextChat ==
    \/ handleChatInputChange
    \/ sendByButton
    \/ sendByEnter
    \/ chatSettles

SpecChat == InitChat /\ [][NextChat]_vars

\* ------------------------------------------------------------------ AI requests

\* the pages whose AI requests are followed
AiPages == {"customerNewDemand", "customerMyDemands", "adminTruckPlanning"}

\* the ids of the two demands CustomerMyDemandsPage lists
CardIds == {"1", "2"}

\* at most MaxCalls calls of the page are awaited at a time
MaxCalls == 2

\* how an awaited call ends: an answer of the shape asked for, an empty array,
\* a text that is not JSON, or a rejection
Outcomes == {"ok", "empty", "unparsable", "failed"}

\* what the generator function of a JSON feature returns: the parsed value,
\* the empty array, or the error string of its catch or of the parser
ResultOf(outcome) ==
    IF outcome = "ok" THEN "result" ELSE IF outcome = "empty" THEN "empty" ELSE "error"

\* what the generator function of a text feature returns: response.text, or
\* the error string that stands for an empty text or a rejection
TextResultOf(outcome) == IF outcome = "ok" THEN "result" ELSE "error"

\* a loading flag that is set: the key of an isLoading record, or the id an
\* id-valued flag holds
Flag(flag, key) == [flag |-> flag, key |-> key]

\* setX(id) and setX(null) of an id-valued flag
SetFlag(flags, flag, key) == {l \in flags : l.flag # flag} \cup {Flag(flag, key)}
ClearFlag(flags, flag) == {l \in flags : l.flag # flag}

\* flag !== null
Holds(flag) == \E l \in aiLoading : l.flag = flag

Remove(calls, i) == SubSeq(calls, 1, i - 1) \o SubSeq(calls, i + 1, Len(calls))

NewDemandFeatures == {"alternatives", "comparison", "autoComment"}

\* the rest of the disabled expression of the feature's button (diameterType
\* and notes are not followed)
FeatureUnavailable(featureKey) ==
    IF featureKey = "comparison" THEN aiResult.alternativeProducts # "result"
    ELSE ~AllFieldsFilled(formData)

\* handleAiFeatureClick of CustomerNewDemandPage up to its await, behind the
\* three buttons of the AI card
handleAiFeatureClick ==
    \E featureKey \in NewDemandFeatures :
        /\ page = "customerNewDemand"
        /\ ~recalcPending
        /\ ai
        /\ ~isAnyLoading
        /\ ~FeatureUnavailable(featureKey)
        /\ aiLoading' = aiLoading \cup {Flag("isLoading", featureKey)}
        /\ aiResult' = [aiResult EXCEPT
               !.alternativeProducts = IF featureKey # "alternatives" THEN "null" ELSE @,
               !.productComparison = IF featureKey # "comparison" THEN "null" ELSE @]
        /\ aiCalls' = Append(aiCalls, Flag("isLoading", featureKey))
        /\ UNCHANGED <<aiVars, aiSelected, chatVars, submitVars, storeVars, userRole, page, location,
                       formVars, adminVars, dashVars>>

\* the result states after the try or the catch of handleAiFeatureClick
AfterFeature(featureKey, result) ==
    IF featureKey = "alternatives"
    THEN [aiResult EXCEPT !.alternativeProducts = result,
                          !.productComparison = IF result = "result" THEN @ ELSE "null"]
    ELSE IF featureKey = "comparison"
    THEN [aiResult EXCEPT !.productComparison = result]
    ELSE aiResult

\* faulty variant of handleAiFeatureClickSettles: the flag is cleared at the
\* end of the try, so a rejected call leaves it set
handleAiFeatureClickSettlesInTry ==
    \E i \in 1..Len(aiCalls) : \E outcome \in Outcomes :
        /\ page = "customerNewDemand"
        /\ aiCalls' = Remove(aiCalls, i)
        /\ aiResult' = AfterFeature(aiCalls[i].key, ResultOf(outcome))
        /\ aiLoading' = IF outcome = "failed" THEN aiLoading ELSE aiLoading \ {aiCalls[i]}
        /\ UNCHANGED <<aiVars, aiSelected, chatVars, submitVars, storeVars, userRole, page, location,
                       formVars, adminVars, dashVars>>

\* handleAiFeatureClick of CustomerNewDemandPage from its await on: the try
\* or the catch sets the result, the finally clears the flag
handleAiFeatureClickSettles ==
    \E i \in 1..Len(aiCalls) : \E outcome \in Outcomes :
        /\ page = "customerNewDemand"
        /\ aiCalls' = Remove(aiCalls, i)
        /\ aiResult' = AfterFeature(aiCalls[i].key, ResultOf(outcome))
        /\ aiLoading' = aiLoading \ {aiCalls[i]}
        /\ UNCHANGED <<aiVars, aiSelected, chatVars, submitVars, storeVars, userRole, page, location,
                       formVars, adminVars, dashVars>>

\* handleAiDemandAnalysis of CustomerMyDemandsPage up to its await.  The page
\* disables the button of a demand while another demand's explanation or any
\* stock suggestion loads; for the demand whose own flag is set it passes
\* isLoading only.
handleAiDemandAnalysis ==
    \E demand \in CardIds :
        /\ page = "customerMyDemands"
        /\ ai
        /\ ~(Holds("isAiLoadingForDemand")
               /\ Flag("isAiLoadingForDemand", demand) \notin aiLoading)
        /\ ~Holds("isAiLoadingForStockSuggestion")
        /\ IF aiSelected.selectedDemandIdForAi = demand /\ aiResult.aiAnalysisResult # "null"
           THEN /\ aiSelected' = [aiSelected EXCEPT !.selectedDemandIdForAi = "null"]
                /\ aiResult' = [aiResult EXCEPT !.aiAnalysisResult = "null"]
                /\ aiLoading' = ClearFlag(aiLoading, "isAiLoadingForDemand")
                /\ UNCHANGED aiCalls
           ELSE /\ Len(aiCalls) < MaxCalls
                /\ aiLoading' = SetFlag(aiLoading, "isAiLoadingForDemand", demand)
                /\ aiSelected' = [selectedDemandIdForAi |-> demand,
                                  selectedDemandIdForStockSuggestion |-> "null"]
                /\ aiResult' = [aiResult EXCEPT !.aiAnalysisResult = "null",
                                                !.suggestedStock = "null"]
                /\ aiCalls' = Append(aiCalls, Flag("isAiLoadingForDemand", demand))
        /\ UNCHANGED <<aiVars, chatVars, submitVars, storeVars, userRole, page, location, formVars,
                       adminVars, dashVars>>

\* handleAiDemandAnalysis from its await on
handleAiDemandAnalysisSettles ==
    \E i \in 1..Len(aiCalls) : \E outcome \in Outcomes :
        /\ page = "customerMyDemands"
        /\ aiCalls[i].flag = "isAiLoadingForDemand"
        /\ aiCalls' = Remove(aiCalls, i)
        /\ aiResult' = [aiResult EXCEPT !.aiAnalysisResult = TextResultOf(outcome)]
        /\ aiLoading' = ClearFlag(aiLoading, "isAiLoadingForDemand")
        /\ UNCHANGED <<aiVars, aiSelected, chatVars, submitVars, storeVars, userRole, page, location,
                       formVars, adminVars, dashVars>>

\* handleSuggestSimilarStock of CustomerMyDemandsPage up to its await
handleSuggestSimilarStock ==
    \E demand \in CardIds :
        /\ page = "customerMyDemands"
        /\ ai
        /\ ~(Holds("isAiLoadingForStockSuggestion")
               /\ Flag("isAiLoadingForStockSuggestion", demand) \notin aiLoading)
        /\ ~Holds("isAiLoadingForDemand")
        /\ IF aiSelected.selectedDemandIdForStockSuggestion = demand
              /\ aiResult.suggestedStock # "null"
           THEN /\ aiSelected' = [aiSelected EXCEPT !.selectedDemandIdForStockSuggestion = "null"]
                /\ aiResult' = [aiResult EXCEPT !.suggestedStock = "null"]
                /\ aiLoading' = ClearFlag(aiLoading, "isAiLoadingForStockSuggestion")
                /\ UNCHANGED aiCalls
           ELSE /\ Len(aiCalls) < MaxCalls
                /\ aiLoading' = SetFlag(aiLoading, "isAiLoadingForStockSuggestion", demand)
                /\ aiSelected' = [selectedDemandIdForAi |-> "null",
                                  selectedDemandIdForStockSuggestion |-> demand]
                /\ aiResult' = [aiResult EXCEPT !.aiAnalysisResult = "null",
                                                !.suggestedStock = "null"]
                /\ aiCalls' = Append(aiCalls, Flag("isAiLoadingForStockSuggestion", demand))
        /\ UNCHANGED <<aiVars, chatVars, submitVars, storeVars, userRole, page, location, formVars,
                       adminVars, dashVars>>

\* handleSuggestSimilarStock from its await on
handleSuggestSimilarStockSettles ==
    \E i \in 1..Len(aiCalls) : \E outcome \in Outcomes :
        /\ page = "customerMyDemands"
        /\ aiCalls[i].flag = "isAiLoadingForStockSuggestion"
        /\ aiCalls' = Remove(aiCalls, i)
        /\ aiResult' = [aiResult EXCEPT !.suggestedStock = ResultOf(outcome)]
        /\ aiLoading' = ClearFlag(aiLoading, "isAiLoadingForStockSuggestion")
        /\ UNCHANGED <<aiVars, aiSelected, chatVars, submitVars, storeVars, userRole, page, location,
                       formVars, adminVars, dashVars>>

TruckFeatures == {"loadingPlan", "costEstimation", "freightOptimizationTips"}

\* handleAiFeatureClick of AdminTruckPlanningPage up to its await; the flag
\* of a feature is named by the feature (the source appends Op)
handleAiFeatureClickTruck ==
    \E featureKey \in TruckFeatures :
        /\ page = "adminTruckPlanning"
        /\ ai
        /\ ~isAnyLoading
        /\ aiLoading' = aiLoading \cup {Flag("isLoading", featureKey)}
        /\ aiResult' = [aiResult EXCEPT ![featureKey] = "null"]
        /\ aiCalls' = Append(aiCalls, Flag("isLoading", featureKey))
        /\ UNCHANGED <<aiVars, aiSelected, chatVars, submitVars, storeVars, userRole, page, location,
                       formVars, adminVars, dashVars>>

\* handleAiFeatureClick of AdminTruckPlanningPage from its await on
handleAiFeatureClickTruckSettles ==
    \E i \in 1..Len(aiCalls) : \E outcome \in Outcomes :
        /\ page = "adminTruckPlanning"
        /\ aiCalls' = Remove(aiCalls, i)
        /\ aiResult' = [aiResult EXCEPT ![aiCalls[i].key] = ResultOf(outcome)]
        /\ aiLoading' = aiLoading \ {aiCalls[i]}
        /\ UNCHANGED <<aiVars, aiSelected, chatVars, submitVars, storeVars, userRole, page, location,
                       formVars, adminVars, dashVars>>

\* an awaited call of the page settles
aiCallSettles ==
    \/ handleAiFeatureClickSettles
    \/ handleAiDemandAnalysisSettles
    \/ handleSuggestSimilarStockSettles
    \/ handleAiFeatureClickTruckSettles

\* the role whose routes hold the page
AiRoleOf(p) == IF p = "adminTruckPlanning" THEN "Administrator" ELSE "Customer"

\* A signed-in user on a page with AI features: the new-demand form holds
\* any typed values, the my-demands page lists two stored demands.
InitAi ==
    \E p \in AiPages : \E client \in BOOLEAN :
    \E dFrom \in TypedValues("diameterFrom"), dTo \in TypedValues("diameterTo"),
       len \in TypedValues("length"), qty \in TypedValues("quantity") :
        /\ demands = IF p = "customerMyDemands"
                     THEN <<Item(SampleForm, calculateCubicMeters(SampleForm), "Received", NoCompany),
                            Item(SampleForm, calculateCubicMeters(SampleForm), "Received", NoCompany)>>
                     ELSE <<>>
        /\ stock = <<>>
        /\ companies = <<>>
        /\ userRole = AiRoleOf(p)
        /\ page = p
        /\ location = p
        /\ formData = IF p = "customerNewDemand" THEN FormOf(dFrom, dTo, len, qty)
                      ELSE initialFormData
        /\ recalcPending = (p = "customerNewDemand")
        /\ submitting = FALSE
        /\ mockCompanies = <<>>
        /\ showCompanyActionForm = "none"
        /\ selectedCompanyForAction = NoSelection
        /\ isLoading = {}
        /\ dashboard = initialDashboard
        /\ requestedTopN = initialTopN
        /\ NoAiRequest
        /\ NoRequests
        /\ NoSubmission
        /\ ai = client
        /\ NoChat

NextAi ==
    \/ calculateCubicMetersEffect
    \/ handleAiFeatureClick
    \/ handleAiFeatureClickSettles
    \/ handleSubmitDemand
    \/ submitTimeout
    \/ handleAiDemandAnalysis
    \/ handleAiDemandAnalysisSettles
    \/ handleSuggestSimilarStock
    \/ handleSuggestSimilarStockSettles
    \/ handleAiFeatureClickTruck
    \/ handleAiFeatureClickTruckSettles

SpecAi == InitAi /\ [][NextAi]_vars

\* every awaited call settles in the end
SpecAiFair == SpecAi /\ WF_vars(aiCallSettles)

\* ------------------------------------------------------------------ properties

\* the feature's loader has run on the mounted dashboard
Loaded(key) == page = "adminDashboard" /\ key \notin isLoading

RECURSIVE SumCounts(_)
SumCounts(rows) == IF rows = <<>> THEN 0 ELSE Head(rows).count + SumCounts(Tail(rows))

RECURSIVE SumPercentages(_)
SumPercentages(rows) ==
    IF rows = <<>> THEN 0 ELSE Head(rows).percentage + SumPercentages(Tail(rows))

\* C1: the counts of the rows the Status Aggregator returns for a list of N
\* demand records or N stock records add up to N, the total it reports.
AggregatorCountsSumToTotal ==
    /\ Loaded("orderStatusSummary") =>
          /\ dashboard.totalDemandsCount = Len(demands)
          /\ SumCounts(dashboard.orderStatusSummary) = dashboard.totalDemandsCount
    /\ Loaded("stockStatusSummary") =>
          /\ dashboard.totalStockItemsCount = Len(stock)
          /\ SumCounts(dashboard.stockStatusSummary) = dashboard.totalStockItemsCount

\* both summaries are loaded over lists that hold records of several statuses
AggregatorCountsWitness ==
    /\ Loaded("orderStatusSummary")
    /\ Loaded("stockStatusSummary")
    /\ Len(demands) >= 2
    /\ Len(stock) >= 2
    /\ \E i, j \in 1..Len(demands) : demands[i].status # demands[j].status
    /\ \E i, j \in 1..Len(stock) : stock[i].status # stock[j].status
    /\ SumCounts(dashboard.orderStatusSummary) = Len(demands)

\* a field is missing or not numeric, or the average radius is not positive
InvalidInputs(fd) ==
    \/ \E name \in FieldNames : fd[name] = <<>>
    \/ parseFloat(fd.diameterFrom).nan
    \/ parseFloat(fd.diameterTo).nan
    \/ parseFloat(fd.length).nan
    \/ parseInt(fd.quantity).nan
    \/ Plus(parseFloat(fd.diameterFrom), parseFloat(fd.diameterTo)).nan
    \/ Plus(parseFloat(fd.diameterFrom), parseFloat(fd.diameterTo)).v <= 0

\* C2: wherever a volume is computed (customer form, manufacturer form, admin
\* submit for a company) it is 0 when a field is missing or not numeric or the
\* average radius is not positive.
VolumeZeroForInvalidInputs ==
    /\ (page \in FormPages /\ ~recalcPending /\ InvalidInputs(formData)) =>
          formData.cubicMeters = 0
    /\ \A i \in 1..Len(demands) : InvalidInputs(demands[i]) => demands[i].cubicMeters = 0
    /\ \A i \in 1..Len(stock) : InvalidInputs(stock[i]) => stock[i].cubicMeters = 0

\* C3: every stored demand or stock record carries the cubicMeters the volume
\* calculator gives for its own diameterFrom, diameterTo, length and quantity.
StoredVolumeIsCalculated ==
    /\ \A i \in 1..Len(demands) : demands[i].cubicMeters = calculateCubicMeters(demands[i])
    /\ \A i \in 1..Len(stock) : stock[i].cubicMeters = calculateCubicMeters(stock[i])

\* C4: on the new-demand and new-stock forms, once the scheduled recomputation
\* has run, cubicMeters is the volume calculator's result for the current fields.
FormVolumeIsCurrent ==
    (page \in FormPages /\ ~recalcPending) =>
        formData.cubicMeters = calculateCubicMeters(formData)

\* a form edited to a volume other than 0, its recomputation done
FormVolumeWitness ==
    /\ page \in FormPages
    /\ ~recalcPending
    /\ AllFieldsFilled(formData)
    /\ formData.cubicMeters # 0

Occurrences(list, r) == Cardinality({i \in 1..Len(list) : list[i] = r})

StillStored(old, new) ==
    \A i \in 1..Len(old) : Occurrences(new, old[i]) >= Occurrences(old, old[i])

Untouched(old, new) ==
    Len(new) >= Len(old) =>
        \A k \in 1..Len(old) : new[Len(new) - Len(old) + k] = old[k]

RECURSIVE OwnedVolume(_, _)
OwnedVolume(items, id) ==
    IF items = <<>> THEN 0
    ELSE (IF Head(items).companyId = id THEN Head(items).cubicMeters ELSE 0)
         + OwnedVolume(Tail(items), id)

OwnedCount(items, id) == Cardinality({i \in 1..Len(items) : items[i].companyId = id})

\* the name as the chart shows it: in full up to 15 characters, else its first
\* 12 characters and three dots
ShownName(name) ==
    IF Len(name) <= 15 THEN name ELSE SubSeq(name, 1, 12) \o <<".", ".", ".">>

\* row is the chart row of company c over items: its label, and its value
\* within half a hundredth of the company's volume
IsRowOf(row, c, items) ==
    /\ row.label = ShownName(c.companyName)
    /\ 10 * row.value - OwnedVolume(items, c.id) \in -5..5

RankedCompanies(role) ==
    {companies[i] : i \in {k \in 1..Len(companies) : companies[k].role = role}}

\* C7 as stated: every row of the Company Volume Ranker reports a value above 0.
RankedValuesArePositive ==
    /\ Loaded("topCustomersByVolume") =>
          \A i \in 1..Len(dashboard.topCustomersByVolume) :
              dashboard.topCustomersByVolume[i].value > 0
    /\ Loaded("topManufacturersByVolume") =>
          \A i \in 1..Len(dashboard.topManufacturersByVolume) :
              dashboard.topManufacturersByVolume[i].value > 0

\* C7: every row of the Company Volume Ranker is the row of a company whose
\* summed volume is above 0, and its value is 0 or more.
RankedCompaniesHaveVolume ==
    /\ Loaded("topCustomersByVolume") =>
          \A i \in 1..Len(dashboard.topCustomersByVolume) :
              /\ dashboard.topCustomersByVolume[i].value >= 0
              /\ \E c \in RankedCompanies("Customer") :
                    /\ IsRowOf(dashboard.topCustomersByVolume[i], c, demands)
                    /\ OwnedVolume(demands, c.id) > 0
    /\ Loaded("topManufacturersByVolume") =>
          \A i \in 1..Len(dashboard.topManufacturersByVolume) :
              /\ dashboard.topManufacturersByVolume[i].value >= 0
              /\ \E c \in RankedCompanies("Manufacturer") :
                    /\ IsRowOf(dashboard.topManufacturersByVolume[i], c, stock)
                    /\ OwnedVolume(stock, c.id) > 0

\* a company with less than half a hundredth of volume is ranked with value 0
RankedSmallVolumeWitness ==
    /\ Loaded("topCustomersByVolume")
    /\ \E i \in 1..Len(dashboard.topCustomersByVolume) :
          /\ dashboard.topCustomersByVolume[i].value = 0
          /\ \E c \in RankedCompanies("Customer") :
                /\ IsRowOf(dashboard.topCustomersByVolume[i], c, demands)
                /\ OwnedVolume(demands, c.id) \in 1..4

\* C8: the value of every row of the Company Volume Ranker is the sum of the
\* volumes of the records that carry the company's id, rounded to 2 decimals.
RankedValueIsOwnedVolume ==
    /\ Loaded("topCustomersByVolume") =>
          \A i \in 1..Len(dashboard.topCustomersByVolume) :
              \E c \in RankedCompanies("Customer") :
                  IsRowOf(dashboard.topCustomersByVolume[i], c, demands)
    /\ Loaded("topManufacturersByVolume") =>
          \A i \in 1..Len(dashboard.topManufacturersByVolume) :
              \E c \in RankedCompanies("Manufacturer") :
                  IsRowOf(dashboard.topManufacturersByVolume[i], c, stock)

\* a ranked manufacturer owns two stock items
RankedSumWitness ==
    /\ Loaded("topManufacturersByVolume")
    /\ \E c \in RankedCompanies("Manufacturer") :
          /\ OwnedCount(stock, c.id) = 2
          /\ \E i \in 1..Len(dashboard.topManufacturersByVolume) :
                /\ IsRowOf(dashboard.topManufacturersByVolume[i], c, stock)
                /\ dashboard.topManufacturersByVolume[i].value >= 1

RowLabels(rows) == {rows[i].label : i \in 1..Len(rows)}

\* C9: a label of the Company Volume Ranker is the company's name when the name
\* has at most 15 characters; a longer name is cut to 15 characters, the dots
\* of the ellipsis among them: its first 12 characters and "...".
RankedLabelIsShownName ==
    /\ Loaded("topCustomersByVolume") =>
          \A l \in RowLabels(dashboard.topCustomersByVolume) :
              /\ Len(l) <= 15
              /\ \E c \in RankedCompanies("Customer") : l = ShownName(c.companyName)
    /\ Loaded("topManufacturersByVolume") =>
          \A l \in RowLabels(dashboard.topManufacturersByVolume) :
              /\ Len(l) <= 15
              /\ \E c \in RankedCompanies("Manufacturer") : l = ShownName(c.companyName)

\* a name of 15 characters is shown in full beside a name of 16 that is cut
RankedLabelWitness ==
    /\ Loaded("topCustomersByVolume")
    /\ LimitName \in RowLabels(dashboard.topCustomersByVolume)
    /\ SubSeq(LongName, 1, 12) \o <<".", ".", ".">>
           \in RowLabels(dashboard.topCustomersByVolume)

\* C10: for a list that is not empty the percentages of the rows of the Status
\* Aggregator add up to 100.0, give or take 0.1 for each value of the enumeration.
PercentagesSumToHundred ==
    /\ (Loaded("orderStatusSummary") /\ Len(demands) > 0) =>
          SumPercentages(dashboard.orderStatusSummary) - 1000
              \in (0 - Len(DemandStatuses))..Len(DemandStatuses)
    /\ (Loaded("stockStatusSummary") /\ Len(stock) > 0) =>
          SumPercentages(dashboard.stockStatusSummary) - 1000
              \in (0 - Len(StockStatuses))..Len(StockStatuses)

\* three demands of three statuses: 33.3 + 33.3 + 33.3 + 0.0 is 99.9
PercentagesWitness ==
    /\ Loaded("orderStatusSummary")
    /\ Len(demands) = 3
    /\ SumPercentages(dashboard.orderStatusSummary) = 999

\* the string is a finite number above 0
IsPositiveNumber(str) ==
    /\ ~parseFloat(str).nan
    /\ ~IsInfinite(parseFloat(str).v)
    /\ parseFloat(str).v > 0

\* the string is a whole number above 0, written with digits only
IsPositiveInteger(str) ==
    /\ str # <<>>
    /\ DigitPrefix(str) = str
    /\ parseInt(str).v > 0

HasPositiveInputs(fd) ==
    /\ IsPositiveNumber(fd.diameterFrom)
    /\ IsPositiveNumber(fd.diameterTo)
    /\ IsPositiveNumber(fd.length)
    /\ IsPositiveInteger(fd.quantity)

\* pi * ((diameterFrom + diameterTo) / 400)^2 * length * quantity in
\* thousandths, rounded to the nearest: with the diameters and the length in
\* tenths this is pi * (dFrom + dTo)^2 * len * qty / 160000
FormulaVolume(fd) ==
    LET dsum == parseFloat(fd.diameterFrom).v + parseFloat(fd.diameterTo).v
        n    == 355 * dsum * dsum * parseFloat(fd.length).v * parseInt(fd.quantity).v
        d    == 113 * 160000
    IN  (n + d \div 2) \div d

\* C11: for positive numeric diameterFrom, diameterTo and length and a positive
\* whole quantity the computed volume is pi * ((diameterFrom + diameterTo) / 400)^2
\* * length * quantity rounded to 3 decimals, on the forms and in every stored record.
VolumeFollowsFormula ==
    /\ (page \in FormPages /\ ~recalcPending /\ HasPositiveInputs(formData)) =>
          formData.cubicMeters = FormulaVolume(formData)
    /\ \A i \in 1..Len(demands) :
          HasPositiveInputs(demands[i]) => demands[i].cubicMeters = FormulaVolume(demands[i])
    /\ \A i \in 1..Len(stock) :
          HasPositiveInputs(stock[i]) => stock[i].cubicMeters = FormulaVolume(stock[i])

\* a stock item of 2.5 cm, 2.5 m and 2 pieces was uploaded: 0.00245 is stored as 0.002
VolumeFormulaWitness ==
    /\ page = "manufacturerNewStock"
    /\ ~recalcPending
    /\ Len(stock) = 1
    /\ stock[1].diameterFrom = <<"2", ".", "5">>
    /\ stock[1].diameterTo = <<"2", ".", "5">>
    /\ stock[1].length = <<"2", ".", "5">>
    /\ stock[1].quantity = <<"2">>
    /\ stock[1].cubicMeters = 2

\* C12: whatever the four input strings are, the computed volume is a finite
\* number: the cubicMeters of a form is never NaN or an Infinity, and no
\* record is stored with the null JSON writes for such a value.
VolumeIsFiniteNumber ==
    /\ formData.cubicMeters \notin {NotANumber, Infinity, 0 - Infinity}
    /\ \A i \in 1..Len(demands) : demands[i].cubicMeters # Null
    /\ \A i \in 1..Len(stock) : stock[i].cubicMeters # Null

AllZero(rows) == \A i \in 1..Len(rows) : rows[i].count = 0 /\ rows[i].percentage = 0

\* C13: for an empty list the Status Aggregator returns count 0 and percentage
\* 0 for every status; nothing is divided by the total 0.
EmptyListGivesZeroRows ==
    /\ (Loaded("orderStatusSummary") /\ demands = <<>>) =>
          /\ Len(dashboard.orderStatusSummary) = Len(DemandStatuses)
          /\ AllZero(dashboard.orderStatusSummary)
    /\ (Loaded("stockStatusSummary") /\ stock = <<>>) =>
          /\ Len(dashboard.stockStatusSummary) = Len(StockStatuses)
          /\ AllZero(dashboard.stockStatusSummary)

\* both summaries are loaded over empty lists
EmptyListWitness ==
    /\ Loaded("orderStatusSummary")
    /\ Loaded("stockStatusSummary")
    /\ demands = <<>>
    /\ stock = <<>>
    /\ AllZero(dashboard.orderStatusSummary)
    /\ AllZero(dashboard.stockStatusSummary)

\* count / total * 100 rounded to one decimal, in tenths of a percent
RoundedShare(count, total) == (2000 * count + total) \div (2 * total)

\* C14: over a list of total > 0 records the percentage of every row is
\* count / total * 100 rounded to 1 decimal.
PercentageIsRoundedShare ==
    /\ (Loaded("orderStatusSummary") /\ Len(demands) > 0) =>
          \A i \in 1..Len(dashboard.orderStatusSummary) :
              dashboard.orderStatusSummary[i].percentage =
                  RoundedShare(dashboard.orderStatusSummary[i].count, Len(demands))
    /\ (Loaded("stockStatusSummary") /\ Len(stock) > 0) =>
          \A i \in 1..Len(dashboard.stockStatusSummary) :
              dashboard.stockStatusSummary[i].percentage =
                  RoundedShare(dashboard.stockStatusSummary[i].count, Len(stock))

\* two of three stock items share a status: 66.666... is shown as 66.7
PercentageRoundedWitness ==
    /\ Loaded("stockStatusSummary")
    /\ Len(stock) = 3
    /\ \E i \in 1..Len(dashboard.stockStatusSummary) :
          /\ dashboard.stockStatusSummary[i].count = 2
          /\ dashboard.stockStatusSummary[i].percentage = 667

RowStatuses(rows) == [i \in 1..Len(rows) |-> rows[i].status]

\* C15: for every list, empty or not, the statuses of the rows of the Status
\* Aggregator are the values of the enumeration in declaration order, one row each.
RowsFollowDeclarationOrder ==
    /\ Loaded("orderStatusSummary") =>
          RowStatuses(dashboard.orderStatusSummary) =
              <<"Received", "Processing", "Completed", "Cancelled">>
    /\ Loaded("stockStatusSummary") =>
          RowStatuses(dashboard.stockStatusSummary) = <<"Available", "Reserved", "Sold">>

\* the counts run against the declaration order: no demand is Received, the
\* last status has the most
RowsOrderWitness ==
    /\ Loaded("orderStatusSummary")
    /\ Len(dashboard.orderStatusSummary) = 4
    /\ dashboard.orderStatusSummary[1].count = 0
    /\ dashboard.orderStatusSummary[2].count = 1
    /\ dashboard.orderStatusSummary[4].count = 2

RowsNeverIncrease(rows) == \A i \in 1..Len(rows) - 1 : rows[i].value >= rows[i + 1].value

\* C16: the values of the rows of the Company Volume Ranker never increase
\* from one row to the next.
RankedRowsAreSortedByValue ==
    /\ Loaded("topCustomersByVolume") => RowsNeverIncrease(dashboard.topCustomersByVolume)
    /\ Loaded("topManufacturersByVolume") =>
          RowsNeverIncrease(dashboard.topManufacturersByVolume)

\* two customers are ranked against their order in the company list: the second
\* listed company has the larger value and stands first
RankedSortedWitness ==
    /\ Loaded("topCustomersByVolume")
    /\ Len(dashboard.topCustomersByVolume) = 2
    /\ Len(companies) = 2
    /\ dashboard.topCustomersByVolume[1].label = ShownName(companies[2].companyName)
    /\ dashboard.topCustomersByVolume[2].label = ShownName(companies[1].companyName)
    /\ dashboard.topCustomersByVolume[1].value > dashboard.topCustomersByVolume[2].value

\* the companies of the role whose records' volumes add up to something
CompaniesWithVolume(role, items) ==
    {c \in RankedCompanies(role) : OwnedVolume(items, c.id) # 0}

Min(a, b) == IF a < b THEN a ELSE b

\* C17: the Company Volume Ranker returns at most as many rows as were asked
\* for, and at most as many as the role has companies with a nonzero summed volume.
RankedRowsAreAtMostTopN ==
    /\ Len(dashboard.topCustomersByVolume) <=
          Min(requestedTopN["Customer"],
              Cardinality(CompaniesWithVolume("Customer", demands)))
    /\ Len(dashboard.topManufacturersByVolume) <=
          Min(requestedTopN["Manufacturer"],
              Cardinality(CompaniesWithVolume("Manufacturer", stock)))

\* one row was asked for while two customers have volume, and two rows were
\* asked for while one manufacturer, or none, has volume
RankedTopNWitness ==
    \/ /\ requestedTopN["Customer"] = 1
       /\ Cardinality(CompaniesWithVolume("Customer", demands)) = 2
       /\ Len(dashboard.topCustomersByVolume) = 1
    \/ /\ requestedTopN["Manufacturer"] = 1
       /\ Cardinality(CompaniesWithVolume("Manufacturer", stock)) = 2
       /\ Len(dashboard.topManufacturersByVolume) = 1

\* the place of the row that shows the company
RowOf(rows, c) == CHOOSE i \in 1..Len(rows) : rows[i].label = ShownName(c.companyName)

\* every two companies of the role whose records' volumes add up to the same
\* positive sum have their rows in the order of the company list
TiesKeepListOrder(rows, role, items) ==
    \A a, b \in 1..Len(companies) :
        (/\ a < b
         /\ companies[a].role = role
         /\ companies[b].role = role
         /\ OwnedVolume(items, companies[a].id) > 0
         /\ OwnedVolume(items, companies[a].id) = OwnedVolume(items, companies[b].id))
        => /\ \E i \in 1..Len(rows) : rows[i].label = ShownName(companies[a].companyName)
           /\ \E i \in 1..Len(rows) : rows[i].label = ShownName(companies[b].companyName)
           /\ RowOf(rows, companies[a]) < RowOf(rows, companies[b])

\* C18: companies of equal summed volume are returned by the Company Volume
\* Ranker in the order they have in the company list.
RankedTiesKeepListOrder ==
    /\ Loaded("topCustomersByVolume") =>
          TiesKeepListOrder(dashboard.topCustomersByVolume, "Customer", demands)
    /\ Loaded("topManufacturersByVolume") =>
          TiesKeepListOrder(dashboard.topManufacturersByVolume, "Manufacturer", stock)

\* two manufacturers whose stock adds up to the same volume are both ranked
RankedTiesWitness ==
    /\ Loaded("topManufacturersByVolume")
    /\ Len(companies) = 2
    /\ Len(dashboard.topManufacturersByVolume) = 2
    /\ OwnedVolume(stock, companies[1].id) = OwnedVolume(stock, companies[2].id)
    /\ RowOf(dashboard.topManufacturersByVolume, companies[1]) = 1
    /\ RowOf(dashboard.topManufacturersByVolume, companies[2]) = 2

\* C19: a run of the Status Aggregator or of the Company Volume Ranker, which
\* is every step that sets a list of the dashboard or clears a loading flag,
\* leaves the stored demands, stock and companies as they were.
LoadersKeepTheStore ==
    [][(dashboard' # dashboard \/ isLoading' # isLoading) => UNCHANGED storeVars]_vars

\* all four loaders have run over a store of demands, stock and two companies,
\* the companies are ranked against their stored order, and the store still
\* holds them in that order
LoadersKeepWitness ==
    /\ isLoading = {}
    /\ page = "adminDashboard"
    /\ Len(demands) = MaxRankItems
    /\ Len(stock) = MaxRankItems
    /\ Len(companies) = 2
    /\ dashboard.totalDemandsCount = Len(demands)
    /\ dashboard.totalStockItemsCount = Len(stock)
    /\ Len(dashboard.topManufacturersByVolume) = 2
    /\ companies[1].id = 1
    /\ companies[2].id = 2
    /\ RowOf(dashboard.topManufacturersByVolume, companies[2]) = 1
    /\ OwnedVolume(stock, 2) > OwnedVolume(stock, 1)

\* the member of the object under the name, or Pending when it has none
\* (the last of the members of that name, as JSON.parse keeps it)
Member(object, name) ==
    LET places == {i \in 1..Len(object.keys) : object.keys[i] = name}
    IN  IF places = {} THEN Pending
        ELSE object.items[CHOOSE i \in places : \A j \in places : j <= i]

HasMember(value, name, kind) == value.kind = "object" /\ Member(value, name).kind = kind

\* a member the schema leaves optional
MayHaveMember(value, name, kind) ==
    value.kind = "object" /\ Member(value, name).kind \in {kind, "pending"}

ArrayOf(value, Conforms(_)) ==
    value.kind = "array" /\ \A i \in 1..Len(value.items) : Conforms(value.items[i])

\* {name: string; specs: string}
IsAlternative(value) ==
    HasMember(value, <<"n", "a", "m", "e">>, "string")
        /\ HasMember(value, <<"s", "p", "e", "c", "s">>, "string")

\* AiStockSuggestion
IsStockSuggestion(value) ==
    /\ HasMember(value, <<"s", "t", "o", "c", "k", "I", "t", "e", "m", "I", "d">>, "string")
    /\ HasMember(value, <<"r", "e", "a", "s", "o", "n">>, "string")
    /\ MayHaveMember(value, <<"m", "a", "t", "c", "h", "S", "t", "r", "e", "n", "g", "t", "h">>,
                     "string")
    /\ MayHaveMember(value, <<"s", "i", "m", "i", "l", "a", "r", "i", "t", "y",
                              "S", "c", "o", "r", "e">>, "number")

\* MonthlyPlatformSummaryData
IsMonthlySummary(value) ==
    /\ HasMember(value, <<"m", "o", "n", "t", "h">>, "string")
    /\ HasMember(value, <<"n", "e", "w", "D", "e", "m", "a", "n", "d", "s">>, "number")
    /\ HasMember(value, <<"n", "e", "w", "S", "t", "o", "c", "k", "I", "t", "e", "m", "s">>,
                  "number")
    /\ HasMember(value, <<"s", "u", "c", "c", "e", "s", "s", "f", "u", "l",
                           "M", "a", "t", "c", "h", "e", "s">>, "number")
    /\ HasMember(value, <<"a", "i", "I", "n", "t", "e", "r", "p", "r", "e", "t", "a", "t", "i",
                           "o", "n">>, "string")

\* the value has the shape the feature passes to the parse step as T
ConformsTo(feature, value) ==
    CASE feature = "alternatives" -> ArrayOf(value, IsAlternative)
      [] feature = "stockSuggestions" -> ArrayOf(value, IsStockSuggestion)
      [] feature = "monthlySummary" -> IsMonthlySummary(value)

\* C20: for every AI response text the parse step ends with a value of the
\* shape the feature expects or with a string, the error; it yields no value of
\* another shape.
ParseYieldsConformingOrError ==
    (aiFeature # "none" /\ parsedResult # Pending) =>
        \/ parsedResult.kind = "string"
        \/ ConformsTo(aiFeature, parsedResult)

\* the records that carry the id of a company that is not in the company list
Strays(items) ==
    {i \in 1..Len(items) :
        /\ items[i].companyId # NoCompany
        /\ \A k \in 1..Len(companies) : companies[k].id # items[i].companyId}

\* the rows are those of the listed companies of the role that have volume,
\* one each, with the volume of the company's own records
RowsAreOfListedCompanies(rows, role, items) ==
    /\ Len(rows) = Cardinality(CompaniesWithVolume(role, items))
    /\ \A i \in 1..Len(rows) : \E c \in RankedCompanies(role) : IsRowOf(rows[i], c, items)
    /\ \A c \in CompaniesWithVolume(role, items) :
          \E i \in 1..Len(rows) : IsRowOf(rows[i], c, items)

\* C21: a record whose company id matches no company of the company list does
\* not stop the Company Volume Ranker, which still returns the rows of the
\* listed companies, and the record adds to no row.
StraysAreNotRanked ==
    /\ Loaded("topCustomersByVolume") =>
          RowsAreOfListedCompanies(dashboard.topCustomersByVolume, "Customer", demands)
    /\ Loaded("topManufacturersByVolume") =>
          RowsAreOfListedCompanies(dashboard.topManufacturersByVolume, "Manufacturer",
                                   stock)

\* the customers are ranked over demands of which one is of an unlisted
\* company: the listed customer that has volume is ranked with its own volume
StraysWitness ==
    /\ Loaded("topCustomersByVolume")
    /\ Strays(demands) # {}
    /\ Len(demands) = 2
    /\ Len(dashboard.topCustomersByVolume) = 1
    /\ \E c \in RankedCompanies("Customer") :
          IsRowOf(dashboard.topCustomersByVolume[1], c, demands)

\* C22: whenever a demand or stock submission is reported to the user as
\* successful, the submitted record is in the store.
ReportedRecordIsStored ==
    reported # <<>> =>
        \/ \E i \in 1..Len(demands) : demands[i] = reported[1]
        \/ \E i \in 1..Len(stock) : stock[i] = reported[1]

\* C23: the loading flag of the assistant chat is set whenever a request of
\* the chat was started and has not completed.
ChatLoadingWhileInFlight == inFlight # <<>> => chatLoading

\* C24: after any sequence of handleAddCompany and handleGenerateSimulatedData
\* the names of the company list are pairwise distinct when letter case is ignored.
CompanyNamesAreDistinct ==
    \A i, j \in 1..Len(companies) :
        i # j => toLowerCase(companies[i].companyName) # toLowerCase(companies[j].companyName)

\* a cubicMeters below zero; NaN and the null of a stored record are not
Negative(cubicMeters) == cubicMeters \notin {NotANumber, Null} /\ cubicMeters < 0

\* C25: the volume computed for a form and stored as cubicMeters is never
\* negative, whatever the input strings: not on the form after the
\* recomputation, and not in a stored demand or stock record.
VolumeIsNeverNegative ==
    /\ ~recalcPending => ~Negative(formData.cubicMeters)
    /\ \A i \in 1..Len(demands) : ~Negative(demands[i].cubicMeters)
    /\ \A i \in 1..Len(stock) : ~Negative(stock[i].cubicMeters)

\* C26: for every four non-empty field strings, the volume the admin's
\* submit for a company computes is the cubicMeters the calculator of the
\* customer and manufacturer forms gives for the same strings.
AdminVolumeIsFormVolume ==
    (showCompanyActionForm # "none" /\ AllFieldsFilled(formData)) =>
        adminCubicMeters(formData) = calculateCubicMeters(formData)

\* the loading flags an AI request of the followed pages sets
AiFlags ==
    {Flag("isLoading", key) : key \in NewDemandFeatures \cup TruckFeatures}
        \cup {Flag(flag, demand) :
                 flag \in {"isAiLoadingForDemand", "isAiLoadingForStockSuggestion"},
                 demand \in CardIds}

\* C27: every AI request that is started has its loading flag cleared in the
\* end, whether the call answers as asked, answers with a text that cannot
\* be parsed, or fails, provided the call settles.
LoadingFlagIsEventuallyCleared ==
    \A l \in AiFlags : (l \in aiLoading) ~> (l \notin aiLoading)

\* a request for alternatives ended in an error string and left no flag set
LoadingClearedWitness ==
    /\ page = "customerNewDemand"
    /\ aiResult.alternativeProducts = "error"
    /\ aiLoading = {}
    /\ aiCalls = <<>>

\* C28: on the new-demand page, while any loading flag is set (an AI request
\* is in flight or a submission is pending), no step starts a further AI
\* request or a further submission.
NothingStartsWhileLoading ==
    [][(page = "customerNewDemand" /\ isAnyLoading) =>
           /\ Len(aiCalls') <= Len(aiCalls)
           /\ submitting' => submitting
           /\ demands' = demands]_vars

\* an AI request is in flight on a filled form whose buttons nothing else disables
LoadingBlocksWitness ==
    /\ page = "customerNewDemand"
    /\ ai
    /\ ~recalcPending
    /\ AllFieldsFilled(formData)
    /\ aiLoading # {}
    /\ ~submitting

\* C30: at every moment the page shown is permitted for the current role:
\* without a role only the login page is shown, and a page of the customer,
\* the manufacturer or the administrator is shown only while userRole is
\* that role.
PageIsPermittedForRole ==
    /\ userRole = "none" => page = "login"
    /\ \A role \in {"Customer", "Manufacturer", "Administrator"} :
           page \in PagesOf(role) => userRole = role

\* a customer has put the path of an admin page into the address bar
ForeignAddressWitness ==
    /\ userRole = "Customer"
    /\ location = "adminUsers"
    /\ page = "notFound"


====
